---- MODULE Spec2Model ----
(***************************************************************************)
(* A model of the search back end of panhub: the in-memory cache           *)
(* (server/core/cache/memoryCache.ts), the result merger                   *)
(* (composables/search/merger.ts), the plugin manager                      *)
(* (server/core/plugins/manager.ts), the search service (plugin fan-out,   *)
(* timeouts, response shaping and caching), the rate limit middleware      *)
(* (server/middleware/ratelimit.ts), the useSearch composable              *)
(* (composables/search) and the search handlers (server/api/search.get.ts, *)
(* server/api/search.post.ts).                                             *)
(*                                                                         *)
(* Each component has its own specification (SpecCache and SpecPass,       *)
(* SpecMerge, SpecPlugins, SpecSearch, SpecTimeout, SpecRequest, SpecRate, *)
(* SpecUse and SpecBatches, SpecApi); the variables of the other           *)
(* components stay at their initial values.                                *)
(***************************************************************************)
EXTENDS Integers, Sequences, FiniteSets, TLC

VARIABLES
    \* ---- MemoryCache ----
    options,      \* this.options: maxSize, maxMemoryBytes, cleanupInterval, memoryThreshold
    store,        \* this.store: the Map, as the sequence of its records in insertion order
    lastCleanup,  \* this.lastCleanup
    metrics,      \* this.metrics: hits, misses, evictions
    now,          \* Date.now()
    last,         \* what the last public cache operation did and returned
    lastSet,      \* the record of the last set(), while no other set, delete, clear or
                  \* forceCleanup has followed it (a history variable)
    gets,         \* the get() calls since construction or the last clear() (a history
                  \* variable)
    recency,      \* the stored keys in the order of their last set() or get() hit,
                  \* least recent first (a history variable)
    \* ---- mergeMergedByType ----
    mHeap,        \* the arrays and mapping objects the calls read and create
    mTarget,      \* the mapping folded so far (state.merged / merged), a reference
    mIncoming,    \* the incoming mapping of the last call, a reference or Null
    mOut,         \* what the last call returned, a reference
    mOut2,        \* what merging the same incoming once more returned
    mSnap,        \* the contents of target, incoming and out when each call started
    mFromEmpty,   \* the fold started from the empty mapping
    mPhase,       \* "idle", "merged", "remerged"
    \* ---- PluginManager ----
    plugins,      \* this.plugins, each entry with its registration position
    pOp,          \* the last PluginManager call
    pSorted,      \* what the last call returned, if it was getPlugins()
    pFound,       \* what the last call returned, if it was getPlugin(name)
    pHist,        \* given: the non-null plugins handed to registerPlugin(s) since
                  \* construction or the last clear(); nulls: the null elements of the
                  \* last call; asked: the name the last getPlugin was called with;
                  \* names: the names given since construction or the last clear();
                  \* dup: one of them was given more than once (a history variable)
    \* ---- SearchService.search: one call ----
    sPhase,       \* "idle", "running", "returned", "thrown"
    sSel,         \* the selected plugins, in the order of getPlugins()
    sBehav,       \* per selected plugin, what its search() does in this call
    sState,       \* per selected plugin: "waiting", "running", "done", "failed"
    sConc,        \* the effective concurrency
    sBatch,       \* the batch being run
    sCounts,      \* per selected plugin, the number of results collected from it
    sTotal,       \* total of the response
    sReq,         \* the request profile of the call
    sOpts,        \* the SearchServiceOptions
    sCache,       \* the cache of the service: its entries
    sNow,         \* Date.now()
    sResp,        \* the response of the call
    sHit,         \* the call was served from the cache
    \* ---- rate limit middleware ----
    rlConfig,     \* rateLimitConfig: windowMs, maxRequests
    rlStore,      \* store: per client IP its record (count, resetTime), or none
    rlNow,        \* Date.now()
    rlAllowed,    \* per client IP and time, how many requests were let through (history)
    rlSeen,       \* per client IP, the limited requests it has made since its record
                  \* was created, counted up to maxRequests + 1 (history)
    rlLast,       \* what the handler did with the last request
    \* ---- useSearch ----
    uSettings,    \* options.settings: enabled plugins and channels, concurrency
    uState,       \* state.value
    searchSeq,    \* searchSeq.value
    uRuns,        \* the calls of performSearch and continueSearch, in the order
                  \* they started, each with the await it has reached
    uHist,        \* the batches the current search has completed (0 is the fast
                  \* batch), those it had completed at its last pauseSearch, and
                  \* whether one of its requests failed or was aborted otherwise than
                  \* by pauseSearch (a history variable)
    \* ---- the search handlers ----
    aHandler,     \* the handler that took the last request: "get", "post" or "none"
    aReq,         \* the parameters of the last request, as received
    aCall,        \* the arguments of the service.search call of the last request, if any
    aResp         \* the HTTP status and the body code of the last response

cacheVars == <<options, store, lastCleanup, metrics, now, last, lastSet, gets, recency>>
mergeVars == <<mHeap, mTarget, mIncoming, mOut, mOut2, mSnap, mFromEmpty, mPhase>>
pluginVars == <<plugins, pOp, pSorted, pFound, pHist>>
searchVars == <<sPhase, sSel, sBehav, sState, sConc, sBatch, sCounts, sTotal,
               sReq, sOpts, sCache, sNow, sResp, sHit>>
rateVars == <<rlConfig, rlStore, rlNow, rlAllowed, rlSeen, rlLast>>
useVars == <<uSettings, uState, searchSeq, uRuns, uHist>>
apiVars == <<aHandler, aReq, aCall, aResp>>
vars == <<cacheVars, mergeVars, pluginVars, searchVars, rateVars, useVars, apiVars>>

\* what the operations of one component leave alone
exceptCache == <<mergeVars, pluginVars, searchVars, rateVars, useVars, apiVars>>
exceptMerge == <<cacheVars, pluginVars, searchVars, rateVars, useVars, apiVars>>
exceptPlugins == <<cacheVars, mergeVars, searchVars, rateVars, useVars, apiVars>>
exceptSearch == <<cacheVars, mergeVars, pluginVars, rateVars, useVars, apiVars>>
exceptRate == <<cacheVars, mergeVars, pluginVars, searchVars, useVars, apiVars>>
exceptUse == <<cacheVars, mergeVars, pluginVars, searchVars, rateVars, apiVars>>
exceptApi == <<cacheVars, mergeVars, pluginVars, searchVars, rateVars, useVars>>

Min2(a, b) == IF a < b THEN a ELSE b
Max2(a, b) == IF a > b THEN a ELSE b

-----------------------------------------------------------------------------
(* Bounds of the cache model *)

MaxSizeBound == 2       \* maxSize is drawn from 1..MaxSizeBound
MaxTicks == 2           \* the clock advances at most MaxTicks ticks
MaxCount == 1           \* the hit / miss / eviction counters are followed up to MaxCount

ThresholdPct == 80      \* memoryThreshold 0.8, as a percentage

Keys == {"k1", "k2", "k3"}
\* cached values are strings: estimateSize gives 2 and 20 bytes
Values == {"a", "bbbbbbbbbb"}
TTLs == {-1, 2}
\* cleanupInterval, in clock ticks
CleanupIntervals == {2}
\* maxMemoryBytes: a tight cap and one that never binds
MemCaps == {24}

CacheOptions ==
    [maxSize : 1..MaxSizeBound, maxMemoryBytes : MemCaps,
     cleanupInterval : CleanupIntervals, memoryThreshold : {ThresholdPct}]

NoOp == [op |-> "none", key |-> "", hit |-> FALSE, ran |-> FALSE,
         purged |-> 0, lru |-> 0, mem |-> 0, pass |-> 0, had |-> FALSE,
         gated |-> FALSE, thr |-> 0, above |-> FALSE]

-----------------------------------------------------------------------------
(* MemoryCache: private helpers *)

\* estimateSize: a string costs two bytes per character
estimateSize(value) == Len(value) * 2

RECURSIVE calculateMemoryUsage(_)
calculateMemoryUsage(st) ==
    IF st = <<>> THEN 0 ELSE Head(st).size + calculateMemoryUsage(Tail(st))

\* cleanupExpired: delete every record with expireAt <= now
cleanupExpired(st, t) == SelectSeq(st, LAMBDA rec : ~(rec.expireAt <= t))

\* evictLRU(count): the loop deletes the first keys of the Map, at most count
evictLRUCount(st, count) == Min2(Max2(count, 0), Len(st))

\* a variant that deletes from the most-recently-used end
evictLRU_fromNewest(st, count) == SubSeq(st, 1, Len(st) - evictLRUCount(st, count))

evictLRU(st, count) == SubSeq(st, evictLRUCount(st, count) + 1, Len(st))

\* evictForMemory(bytesToFree), bytesToFree = num / den: how many records, from the
\* front of the Map, the loop `while (freed < bytesToFree)` deletes
RECURSIVE evictForMemoryCount(_, _, _, _)
evictForMemoryCount(st, num, den, freed) ==
    IF freed * den < num /\ st # <<>>
    THEN 1 + evictForMemoryCount(Tail(st), num, den, freed + Head(st).size)
    ELSE 0

evictForMemory(st, num, den) ==
    SubSeq(st, evictForMemoryCount(st, num, den, 0) + 1, Len(st))

\* smartCleanup(force) at time t on the cache c = [store, lastCleanup, evictions].
\* The result also reports whether the pass ran and how many records it purged
\* (expired) and evicted. The pass is written as a chain of steps, each handing the
\* Map it leaves to the next one.

\* the memory in use by the Map st is above memoryThreshold x maxMemoryBytes
aboveThreshold(st) ==
    calculateMemoryUsage(st) * 100 > options.memoryThreshold * options.maxMemoryBytes

\* the end of the pass: s1 is the Map after step 1, s3 after step 3, s4 after step 4;
\* thr and above are history fields: the records step 4 evicted, and whether the
\* memory in use when step 4 started was above the threshold
passResult(c, t, s1, s3, s4) ==
    [store |-> s4, lastCleanup |-> t,
     evictions |-> c.evictions + (Len(s1) - Len(s4)),
     ran |-> TRUE, purged |-> Len(c.store) - Len(s1), pass |-> Len(s1) - Len(s4),
     thr |-> Len(s3) - Len(s4), above |-> aboveThreshold(s3)]

\* step 4: memoryPercent = memoryUsage / maxMemoryBytes > memoryThreshold frees
\* memoryUsage * 0.1 bytes; memoryUsage is the value read before step 3
passThreshold(c, t, s1, s3, memoryUsage) ==
    passResult(c, t, s1, s3,
        IF memoryUsage * 100 > options.memoryThreshold * options.maxMemoryBytes
        THEN evictForMemory(s3, memoryUsage, 10)
        ELSE s3)

\* step 3: memoryOver = memoryUsage - maxMemoryBytes
passMemory(c, t, s1, s2, memoryUsage) ==
    passThreshold(c, t, s1,
        IF memoryUsage - options.maxMemoryBytes > 0
        THEN evictForMemory(s2, memoryUsage - options.maxMemoryBytes, 1)
        ELSE s2,
        memoryUsage)

\* step 2: sizeOver = store.size - maxSize
passSize(c, t, s1, s2) == passMemory(c, t, s1, s2, calculateMemoryUsage(s2))

\* step 1: cleanupExpired
passExpired(c, t, s1) ==
    passSize(c, t, s1,
        IF Len(s1) - options.maxSize > 0
        THEN evictLRU(s1, Len(s1) - options.maxSize)
        ELSE s1)

\* a variant without the interval gate
smartCleanup_ungated(c, t, force) == passExpired(c, t, cleanupExpired(c.store, t))

\* a variant in which the interval gate also stops a forced pass
smartCleanup_gated(c, t, force) ==
    IF t - c.lastCleanup < options.cleanupInterval
    THEN [store |-> c.store, lastCleanup |-> c.lastCleanup, evictions |-> c.evictions,
          ran |-> FALSE, purged |-> 0, pass |-> 0, thr |-> 0, above |-> FALSE]
    ELSE passExpired(c, t, cleanupExpired(c.store, t))

smartCleanup(c, t, force) ==
    IF ~force /\ t - c.lastCleanup < options.cleanupInterval
    THEN [store |-> c.store, lastCleanup |-> c.lastCleanup, evictions |-> c.evictions,
          ran |-> FALSE, purged |-> 0, pass |-> 0, thr |-> 0, above |-> FALSE]
    ELSE passExpired(c, t, cleanupExpired(c.store, t))

CacheNow == [store |-> store, lastCleanup |-> lastCleanup, evictions |-> metrics.evictions]

KeysOf(st) == {st[i].key : i \in 1..Len(st)}
KeySeq(st) == [i \in 1..Len(st) |-> st[i].key]
WithoutKey(st, key) == SelectSeq(st, LAMBDA rec : rec.key # key)
RecordOf(st, key) == CHOOSE rec \in {st[i] : i \in 1..Len(st)} : rec.key = key

-----------------------------------------------------------------------------
(* MemoryCache: public operations *)

\* get: `rec.expireAt > Date.now()` decides between a hit and an expired record
\* a variant that still serves a record at its expiry instant
isFresh_inclusive(rec, t) == rec.expireAt >= t

isFresh(rec, t) == rec.expireAt > t

\* set: expireAt: Date.now() + Math.max(0, ttlMs)
\* a variant that takes the minimum
expireAtOf_min(t, ttlMs) == t + Min2(0, ttlMs)

expireAtOf(t, ttlMs) == t + Max2(0, ttlMs)

\* set: toEvict = this.store.size - this.options.maxSize + 1
\* a variant that forgets the room for the new entry
toEvict_noRoom(st) == Len(st) - options.maxSize

toEvict(st) == Len(st) - options.maxSize + 1

\* get(key) after its smartCleanup() left the cache c: the cache after the call,
\* and the result
\* get: this.metrics.misses++ for an absent key and for an expired record
\* a variant that counts only absent keys
missesAfter_absentOnly(misses, found, fresh) == misses + (IF found THEN 0 ELSE 1)

missesAfter(misses, found, fresh) == misses + (IF fresh THEN 0 ELSE 1)

\* get: this.store.delete(key); this.store.set(key, rec)
\* a variant that leaves the record where it is in the Map
touch_inPlace(st, key) == st

touch(st, key) == Append(WithoutKey(st, key), RecordOf(st, key))

getRecord(c, key, found, fresh) ==
    [store |-> IF fresh THEN touch(c.store, key) ELSE WithoutKey(c.store, key),
     lastCleanup |-> c.lastCleanup,
     metrics |-> [hits |-> metrics.hits + (IF fresh THEN 1 ELSE 0),
                  misses |-> missesAfter(metrics.misses, found, fresh),
                  evictions |-> c.evictions],
     last |-> [op |-> "get", key |-> key, hit |-> fresh, ran |-> c.ran,
               purged |-> c.purged + (IF found /\ ~fresh THEN 1 ELSE 0),
               lru |-> 0, mem |-> 0, pass |-> c.pass, had |-> found,
               gated |-> ~c.ran, thr |-> c.thr, above |-> c.above]]

getLookup(c, key) ==
    getRecord(c, key, key \in KeysOf(c.store),
              key \in KeysOf(c.store) /\ isFresh(RecordOf(c.store, key), now))

getCall(key) == getLookup(smartCleanup(CacheNow, now, FALSE), key)

\* set(key, value, ttlMs): the record it builds; setAt and ttl are history fields
\* (when, and with which ttlMs, the record was stored)
newRecord(key, value, ttlMs) ==
    [key |-> key, value |-> value, expireAt |-> expireAtOf(now, ttlMs),
     size |-> estimateSize(value), setAt |-> now, ttl |-> ttlMs]

\* set: needSizeEviction || needMemoryEviction, on the Map st
needEviction(st, size) ==
    \/ Len(st) >= options.maxSize
    \/ calculateMemoryUsage(st) + size > options.maxMemoryBytes

\* set, the end: c is the cache after smartCleanup(), s1 the Map after the purge of
\* the expired records, s2 the Map after the eviction
setInsert(c, s0, s1, s2, record, byCount) ==
    [store |-> Append(s2, record),
     lastCleanup |-> c.lastCleanup,
     metrics |-> [metrics EXCEPT !.evictions = c.evictions + (Len(s1) - Len(s2))],
     last |-> [op |-> "set", key |-> record.key, hit |-> FALSE, ran |-> c.ran,
               purged |-> c.purged + (Len(s0) - Len(s1)),
               lru |-> IF byCount THEN Len(s1) - Len(s2) ELSE 0,
               mem |-> IF byCount THEN 0 ELSE Len(s1) - Len(s2),
               pass |-> c.pass, had |-> record.key \in KeysOf(c.store),
               gated |-> ~c.ran, thr |-> c.thr, above |-> c.above]]

\* set: stillNeedSizeEviction evicts by count, else stillNeedMemoryEviction evicts
\* by memory
setEvict(c, s0, s1, record, need, currentMemoryAfter) ==
    setInsert(c, s0, s1,
        IF need /\ Len(s1) >= options.maxSize
        THEN evictLRU(s1, toEvict(s1))
        ELSE IF need /\ currentMemoryAfter + record.size > options.maxMemoryBytes
             THEN evictForMemory(s1, currentMemoryAfter + record.size
                                       - options.maxMemoryBytes, 1)
             ELSE s1,
        record, need /\ Len(s1) >= options.maxSize)

setPurge(c, s0, s1, record, need) ==
    setEvict(c, s0, s1, record, need, calculateMemoryUsage(s1))

\* set: the expired records are purged first when an eviction is needed
\* a variant that evicts without purging the expired records first
setCheck_noPurge(c, s0, record, need) == setPurge(c, s0, s0, record, need)

setCheck(c, s0, record, need) ==
    setPurge(c, s0, IF need THEN cleanupExpired(s0, now) ELSE s0, record, need)

\* set: an existing record of the key is deleted first
setReplace(c, s0, record) == setCheck(c, s0, record, needEviction(s0, record.size))

\* set: if (this.store.has(key)) this.store.delete(key)
\* a variant that leaves the old record of the key in the Map
deleteExisting_keeps(st, key) == st

deleteExisting(st, key) == WithoutKey(st, key)

setCall(key, value, ttlMs) ==
    setReplace(smartCleanup(CacheNow, now, FALSE),
               deleteExisting(smartCleanup(CacheNow, now, FALSE).store, key),
               newRecord(key, value, ttlMs))

\* no set() is remembered
NoRecord == [key |-> "", value |-> "", expireAt |-> 0, size |-> 0, setAt |-> 0,
             ttl |-> 0, mem |-> 0]

\* the record of a set() and the memory in use when the set() returned
setRemembered(key, value, ttlMs, st) ==
    [key |-> key, value |-> value, expireAt |-> expireAtOf(now, ttlMs),
     size |-> estimateSize(value), setAt |-> now, ttl |-> ttlMs,
     mem |-> calculateMemoryUsage(st)]

\* the recency order rec after a use of key, and after the Map became st
usedNow(rec, key) == Append(SelectSeq(rec, LAMBDA k : k # key), key)
stillStored(rec, st) == SelectSeq(rec, LAMBDA k : k \in KeysOf(st))

\* the counters are unbounded in the code; the model stops counting at MaxCount
EvictionsInRange == metrics.evictions < MaxCount

\* a forced pass is followed also when the evictions counter stands at MaxCount
ForcedInRange == metrics.evictions <= MaxCount

CountersInRange ==
    /\ metrics.hits + metrics.misses < MaxCount
    /\ EvictionsInRange

Get(key) ==
    /\ CountersInRange
    /\ \E r \in {getCall(key)} :
          /\ store' = r.store
          /\ lastCleanup' = r.lastCleanup
          /\ metrics' = r.metrics
          /\ last' = r.last
          /\ recency' = stillStored(IF r.last.hit THEN usedNow(recency, key)
                                    ELSE recency, r.store)
    /\ gets' = gets + 1
    /\ UNCHANGED <<options, now, lastSet>>
    /\ UNCHANGED exceptCache

Set(key, value, ttlMs) ==
    /\ EvictionsInRange
    /\ \E r \in {setCall(key, value, ttlMs)} :
          /\ store' = r.store
          /\ lastCleanup' = r.lastCleanup
          /\ metrics' = r.metrics
          /\ last' = r.last
          /\ lastSet' = setRemembered(key, value, ttlMs, r.store)
          /\ recency' = stillStored(usedNow(recency, key), r.store)
    /\ UNCHANGED <<options, now, gets>>
    /\ UNCHANGED exceptCache

Delete(key) ==
    /\ store' = WithoutKey(store, key)
    /\ last' = [NoOp EXCEPT !.op = "delete", !.key = key,
                            !.had = key \in KeysOf(store)]
    /\ lastSet' = NoRecord
    /\ recency' = stillStored(recency, WithoutKey(store, key))
    /\ UNCHANGED <<options, lastCleanup, metrics, now, gets>>
    /\ UNCHANGED exceptCache

\* clear: this.metrics = { hits: 0, misses: 0, evictions: 0 }
\* a variant that keeps the evictions counter
resetMetrics_keepsEvictions(m) == [m EXCEPT !.hits = 0, !.misses = 0]

resetMetrics(m) == [hits |-> 0, misses |-> 0, evictions |-> 0]

Clear ==
    /\ store' = <<>>
    /\ metrics' = resetMetrics(metrics)
    /\ last' = [NoOp EXCEPT !.op = "clear", !.had = store # <<>>]
    /\ lastSet' = NoRecord
    /\ gets' = 0
    /\ recency' = <<>>
    /\ UNCHANGED <<options, lastCleanup, now>>
    /\ UNCHANGED exceptCache

ForceCleanup ==
    /\ ForcedInRange
    /\ \E c \in {smartCleanup(CacheNow, now, TRUE)} :
          /\ store' = c.store
          /\ lastCleanup' = c.lastCleanup
          /\ metrics' = [metrics EXCEPT !.evictions = c.evictions]
          /\ last' = [NoOp EXCEPT !.op = "forceCleanup", !.ran = c.ran,
                                  !.purged = c.purged, !.pass = c.pass,
                                  !.gated = now - lastCleanup < options.cleanupInterval,
                                  !.thr = c.thr, !.above = c.above]
          /\ recency' = stillStored(recency, c.store)
    /\ lastSet' = NoRecord
    /\ UNCHANGED <<options, now, gets>>
    /\ UNCHANGED exceptCache

\* the clock advances between two operations
Tick ==
    /\ now < options.cleanupInterval + MaxTicks
    /\ now' = now + 1
    /\ last' = [NoOp EXCEPT !.op = "tick"]
    /\ UNCHANGED <<options, store, lastCleanup, metrics, lastSet, gets, recency>>
    /\ UNCHANGED exceptCache

\* new MemoryCache(options); Date.now() is far beyond cleanupInterval, so the first
\* get or set runs the cleanup pass (lastCleanup = 0)
CacheInit ==
    /\ options \in CacheOptions
    /\ store = <<>>
    /\ lastCleanup = 0
    /\ metrics = [hits |-> 0, misses |-> 0, evictions |-> 0]
    /\ now = options.cleanupInterval
    /\ last = NoOp
    /\ lastSet = NoRecord
    /\ gets = 0
    /\ recency = <<>>

\* new MemoryCache(options) with a memory cap whose threshold a single large value
\* just reaches
PassOptions ==
    [maxSize : 1..MaxSizeBound, maxMemoryBytes : {25},
     cleanupInterval : CleanupIntervals, memoryThreshold : {ThresholdPct}]

PassInit ==
    /\ options \in PassOptions
    /\ store = <<>>
    /\ lastCleanup = 0
    /\ metrics = [hits |-> 0, misses |-> 0, evictions |-> 0]
    /\ now = options.cleanupInterval
    /\ last = NoOp
    /\ lastSet = NoRecord
    /\ gets = 0
    /\ recency = <<>>

CacheNext ==
    \/ \E key \in Keys : Get(key)
    \/ \E key \in Keys, value \in Values, ttlMs \in TTLs : Set(key, value, ttlMs)
    \/ \E key \in Keys : Delete(key)
    \/ Clear
    \/ ForceCleanup
    \/ Tick

-----------------------------------------------------------------------------
(* mergeMergedByType: the data *)

MaxTargetLen == 1   \* a list of a mapping that is folded further has at most MaxTargetLen links
MaxLen == 2         \* a list of an incoming mapping has at most MaxLen links

Null == 0           \* an absent (undefined) incoming

\* the storage types, in the key order of the mappings
TypeOrder == <<"baidu", "aliyun">>
Types == {TypeOrder[i] : i \in 1..Len(TypeOrder)}

\* two links with the same URL and different passwords, and a link of another URL
Links == {[url |-> "url1", password |-> ""],
          [url |-> "url1", password |-> "pw"],
          [url |-> "url2", password |-> ""]}

SeqsUpTo(S, n) == UNION {[1..k -> S] : k \in 0..n}

\* the MergedLinks values whose lists have at most n links
Mappings(n) == UNION {[D -> SeqsUpTo(Links, n)] : D \in SUBSET Types}

EmptyHeap == [arrays |-> <<>>, objs |-> <<>>]

\* a new array / a new object: the heap with it, and its reference
allocArray(h, items) ==
    [heap |-> [h EXCEPT !.arrays = Append(@, items)], ref |-> Len(h.arrays) + 1]

allocObject(h, fields) ==
    [heap |-> [h EXCEPT !.objs = Append(@, fields)], ref |-> Len(h.objs) + 1]

\* the mapping an object reference stands for
Deref(h, ref) == [t \in DOMAIN h.objs[ref] |-> h.arrays[h.objs[ref][t]]]

\* Object.keys(obj), in key order
RECURSIVE keysFrom(_, _)
keysFrom(fields, i) ==
    IF i > Len(TypeOrder) THEN <<>>
    ELSE (IF TypeOrder[i] \in DOMAIN fields THEN <<TypeOrder[i]>> ELSE <<>>)
         \o keysFrom(fields, i + 1)

objectKeys(fields) == keysFrom(fields, 1)

\* a mapping value laid out in the heap (a parsed response, or the mapping kept
\* from the previous step): one array per key, then the object
RECURSIVE allocLists(_, _, _, _)
allocLists(h, value, keys, fields) ==
    IF keys = <<>> THEN allocObject(h, fields)
    ELSE allocLists(allocArray(h, value[Head(keys)]).heap, value, Tail(keys),
                    (Head(keys) :> allocArray(h, value[Head(keys)]).ref) @@ fields)

allocMapping(h, value) == allocLists(h, value, objectKeys(value), <<>>)

-----------------------------------------------------------------------------
(* mergeMergedByType: the function *)

\* const seen = new Set(existed.map((x) => x.url))
seenOfExisted_none(existed) == {}

seenOfExisted(existed) == {existed[i].url : i \in 1..Len(existed)}

\* seen.add(item.url)
seenAdd_forgets(seen, url) == seen

seenAdd(seen, url) == seen \cup {url}

\* mergedArr.push(item)
pushItem_front(arr, item) == <<item>> \o arr

pushItem(arr, item) == Append(arr, item)

\* for (const item of next) { if (!seen.has(item.url)) { ... } }
\* a variant in which an item whose URL was seen replaces the record kept for it
RECURSIVE pushNew_lastWins(_, _, _)
pushNew_lastWins(arr, seen, next) ==
    IF next = <<>> THEN arr
    ELSE IF Head(next).url \notin seen
         THEN pushNew_lastWins(Append(arr, Head(next)), seen \cup {Head(next).url},
                               Tail(next))
         ELSE pushNew_lastWins([i \in 1..Len(arr) |->
                                   IF arr[i].url = Head(next).url THEN Head(next)
                                   ELSE arr[i]],
                               seen, Tail(next))

RECURSIVE pushNew(_, _, _)
pushNew(arr, seen, next) ==
    IF next = <<>> THEN arr
    ELSE IF Head(next).url \notin seen
         THEN pushNew(pushItem(arr, Head(next)), seenAdd(seen, Head(next).url), Tail(next))
         ELSE pushNew(arr, seen, Tail(next))

\* const mergedArr = [...existed]: a new array with the same items
copyArray_alias(h, existed) == [heap |-> h, ref |-> existed]

copyArray(h, existed) == allocArray(h, h.arrays[existed])

\* the loop body from the push loop on: the items are pushed onto mergedArr and
\* out[type] = mergedArr
mergePush(h, out, incoming, type, existed, mergedArr) ==
    [arrays |-> [h.arrays EXCEPT ![mergedArr] =
                    pushNew(@, seenOfExisted(h.arrays[existed]),
                            h.arrays[h.objs[incoming][type]])],
     objs |-> [h.objs EXCEPT ![out] = (type :> mergedArr) @@ @]]

mergeCopy(h, out, incoming, type, existed) ==
    mergePush(copyArray(h, existed).heap, out, incoming, type,
              existed, copyArray(h, existed).ref)

\* const existed = out[type] || []
\* a variant that skips the types the target does not have
mergeType_knownOnly(h, out, incoming, type) ==
    IF type \in DOMAIN h.objs[out]
    THEN mergeCopy(h, out, incoming, type, h.objs[out][type])
    ELSE h

mergeType(h, out, incoming, type) ==
    IF type \in DOMAIN h.objs[out]
    THEN mergeCopy(h, out, incoming, type, h.objs[out][type])
    ELSE mergeCopy(allocArray(h, <<>>).heap, out, incoming, type,
                   allocArray(h, <<>>).ref)

\* for (const type of Object.keys(incoming))
RECURSIVE mergeKeys(_, _, _, _)
mergeKeys(h, out, incoming, keys) ==
    IF keys = <<>> THEN h
    ELSE mergeKeys(mergeType(h, out, incoming, Head(keys)), out, incoming, Tail(keys))

\* mergeMergedByType(target, incoming): the heap after the call and the reference
\* it returns
\* a variant without const out = { ...target }: the lists are written into target
mergeMergedByType_inPlace(h, target, incoming) ==
    IF incoming = Null THEN [heap |-> h, ref |-> target]
    ELSE [heap |-> mergeKeys(h, target, incoming, objectKeys(h.objs[incoming])),
          ref |-> target]

mergeMergedByType(h, target, incoming) ==
    IF incoming = Null THEN [heap |-> h, ref |-> target]
    ELSE [heap |-> mergeKeys(allocObject(h, h.objs[target]).heap,
                             allocObject(h, h.objs[target]).ref,
                             incoming, objectKeys(h.objs[incoming])),
          ref |-> allocObject(h, h.objs[target]).ref]

-----------------------------------------------------------------------------
(* mergeMergedByType: the calls *)

FitsTarget(value) == \A t \in DOMAIN value : Len(value[t]) <= MaxTargetLen

NoSnap == [target |-> <<>>, incoming |-> Null, out |-> <<>>]

\* merged = mergeMergedByType(merged, r.merged_by_type), the call itself:
\* h and inc are the heap and the reference of the incoming mapping
callMerge(h, inc) ==
    /\ mHeap' = mergeMergedByType(h, mTarget, inc).heap
    /\ mIncoming' = inc
    /\ mOut' = mergeMergedByType(h, mTarget, inc).ref
    /\ mSnap' = [target |-> Deref(h, mTarget),
                 incoming |-> IF inc = Null THEN Null ELSE Deref(h, inc),
                 out |-> Deref(mergeMergedByType(h, mTarget, inc).heap,
                               mergeMergedByType(h, mTarget, inc).ref)]
    /\ mOut2' = Null
    /\ mPhase' = "merged"
    /\ UNCHANGED <<mTarget, mFromEmpty>>

\* a response with the mapping value is merged into the mapping folded so far
MergeStep(value) ==
    /\ mPhase = "idle"
    /\ callMerge(allocMapping(mHeap, value).heap, allocMapping(mHeap, value).ref)
    /\ UNCHANGED exceptMerge

\* a response without merged_by_type
MergeAbsent ==
    /\ mPhase = "idle"
    /\ callMerge(mHeap, Null)
    /\ UNCHANGED exceptMerge

\* the same incoming mapping is merged into the result once more
ReMerge ==
    /\ mPhase = "merged"
    /\ mHeap' = mergeMergedByType(mHeap, mOut, mIncoming).heap
    /\ mOut2' = mergeMergedByType(mHeap, mOut, mIncoming).ref
    /\ mPhase' = "remerged"
    /\ UNCHANGED <<mTarget, mIncoming, mOut, mSnap, mFromEmpty>>
    /\ UNCHANGED exceptMerge

\* the result becomes the mapping folded so far; the arrays and objects no
\* variable refers to any more are dropped
Fold ==
    /\ mPhase \in {"merged", "remerged"}
    /\ FitsTarget(Deref(mHeap, mOut))
    /\ mHeap' = allocMapping(EmptyHeap, Deref(mHeap, mOut)).heap
    /\ mTarget' = allocMapping(EmptyHeap, Deref(mHeap, mOut)).ref
    /\ mIncoming' = Null
    /\ mOut' = Null
    /\ mOut2' = Null
    /\ mSnap' = NoSnap
    /\ mPhase' = "idle"
    /\ UNCHANGED mFromEmpty
    /\ UNCHANGED exceptMerge

\* the mapping the fold starts from: let merged = {} in the search composable, any
\* mapping for the function taken alone
MergeStart(value) ==
    /\ mHeap = allocMapping(EmptyHeap, value).heap
    /\ mTarget = allocMapping(EmptyHeap, value).ref
    /\ mIncoming = Null
    /\ mOut = Null
    /\ mOut2 = Null
    /\ mSnap = NoSnap
    /\ mFromEmpty = (value = <<>>)
    /\ mPhase = "idle"

MergeInit == \E value \in Mappings(MaxTargetLen) : MergeStart(value)

MergeIdle == MergeStart(<<>>)

MergeNext ==
    \/ \E value \in Mappings(MaxLen) : MergeStep(value)
    \/ MergeAbsent
    \/ ReMerge
    \/ Fold

-----------------------------------------------------------------------------
(* PluginManager *)

MaxPlugins == 3     \* at most MaxPlugins plugins are registered
MaxBatch == 2       \* registerPlugins takes a list of at most MaxBatch elements

PluginNames == {"p1", "p2", "p3"}
Priorities == {1, 2}

\* a plugin instance: name() and priority()
PluginValues == [name : PluginNames, priority : Priorities]

NoPlugin == [name |-> "", priority |-> 0]     \* null / undefined

\* the registry entry of a plugin: reg is a history field, the position at which
\* it was registered
Entry(plugin, pos) == [name |-> plugin.name, priority |-> plugin.priority, reg |-> pos]

\* registerPlugin: if (!plugin) return; this.plugins.push(plugin)
\* a variant without the null test
registerPlugin_pushesNull(list, plugin) == Append(list, Entry(plugin, Len(list) + 1))

registerPlugin(list, plugin) ==
    IF plugin = NoPlugin THEN list ELSE Append(list, Entry(plugin, Len(list) + 1))

\* registerPlugins: for (const plugin of plugins) this.registerPlugin(plugin)
\* a variant that registers every element twice
RECURSIVE registerPlugins_twice(_, _)
registerPlugins_twice(list, batch) ==
    IF batch = <<>> THEN list
    ELSE registerPlugins_twice(registerPlugin(registerPlugin(list, Head(batch)),
                                              Head(batch)), Tail(batch))

RECURSIVE registerPlugins(_, _)
registerPlugins(list, batch) ==
    IF batch = <<>> THEN list
    ELSE registerPlugins(registerPlugin(list, Head(batch)), Tail(batch))

\* the comparator of getPlugins: (a, b) => a.priority() - b.priority()
comparePriority_reversed(a, b) == b.priority - a.priority

comparePriority(a, b) == a.priority - b.priority

\* Array.prototype.sort is stable: an element goes behind every element that the
\* comparator does not put after it
RECURSIVE insertSorted(_, _)
insertSorted(sorted, p) ==
    IF sorted = <<>> THEN <<p>>
    ELSE IF comparePriority(Head(sorted), p) <= 0
         THEN <<Head(sorted)>> \o insertSorted(Tail(sorted), p)
         ELSE <<p>> \o sorted

RECURSIVE sortInto(_, _)
sortInto(sorted, rest) ==
    IF rest = <<>> THEN sorted
    ELSE sortInto(insertSorted(sorted, Head(rest)), Tail(rest))

\* getPlugins: [...this.plugins].sort(...)
getPlugins(list) == sortInto(<<>>, list)

\* getPlugin: this.plugins.find((p) => p.name() === name)
\* a variant that returns the match of the highest priority
getPlugin_byPriority(list, name) ==
    IF \A i \in 1..Len(list) : list[i].name # name THEN NoPlugin
    ELSE list[CHOOSE i \in 1..Len(list) :
                 /\ list[i].name = name
                 /\ \A j \in 1..Len(list) :
                       list[j].name = name =>
                          \/ list[i].priority < list[j].priority
                          \/ list[i].priority = list[j].priority /\ i <= j]

RECURSIVE getPlugin(_, _)
getPlugin(list, name) ==
    IF list = <<>> THEN NoPlugin
    ELSE IF Head(list).name = name THEN Head(list)
         ELSE getPlugin(Tail(list), name)

CountPlugins(batch) == Len(SelectSeq(batch, LAMBDA plugin : plugin # NoPlugin))

\* the names of the non-null plugins of a list, and whether the list names a plugin
\* that is in names already or that it holds at an earlier position
NamesOf(batch) == {batch[i].name : i \in {j \in 1..Len(batch) : batch[j] # NoPlugin}}
Repeats(names, batch) ==
    \E i \in 1..Len(batch) :
        /\ batch[i] # NoPlugin
        /\ \/ batch[i].name \in names
           \/ \E j \in 1..(i - 1) : batch[j] # NoPlugin /\ batch[j].name = batch[i].name

RegisterPlugin(plugin) ==
    /\ Len(plugins) < MaxPlugins
    /\ plugins' = registerPlugin(plugins, plugin)
    /\ pOp' = "registerPlugin"
    /\ pSorted' = <<>>
    /\ pFound' = NoPlugin
    /\ pHist' = [given |-> pHist.given + CountPlugins(<<plugin>>),
                 nulls |-> 1 - CountPlugins(<<plugin>>), asked |-> "",
                 names |-> pHist.names \cup NamesOf(<<plugin>>),
                 dup |-> pHist.dup \/ Repeats(pHist.names, <<plugin>>)]
    /\ UNCHANGED exceptPlugins

RegisterPlugins(batch) ==
    /\ Len(plugins) + CountPlugins(batch) <= MaxPlugins
    /\ plugins' = registerPlugins(plugins, batch)
    /\ pOp' = "registerPlugins"
    /\ pSorted' = <<>>
    /\ pFound' = NoPlugin
    /\ pHist' = [given |-> pHist.given + CountPlugins(batch),
                 nulls |-> Len(batch) - CountPlugins(batch), asked |-> "",
                 names |-> pHist.names \cup NamesOf(batch),
                 dup |-> pHist.dup \/ Repeats(pHist.names, batch)]
    /\ UNCHANGED exceptPlugins

GetPlugins ==
    /\ pSorted' = getPlugins(plugins)
    /\ pOp' = "getPlugins"
    /\ pFound' = NoPlugin
    /\ pHist' = [pHist EXCEPT !.nulls = 0, !.asked = ""]
    /\ UNCHANGED plugins
    /\ UNCHANGED exceptPlugins

GetPlugin(name) ==
    /\ pFound' = getPlugin(plugins, name)
    /\ pOp' = "getPlugin"
    /\ pSorted' = <<>>
    /\ pHist' = [pHist EXCEPT !.nulls = 0, !.asked = name]
    /\ UNCHANGED plugins
    /\ UNCHANGED exceptPlugins

ClearPlugins ==
    /\ plugins' = <<>>
    /\ pOp' = "clear"
    /\ pSorted' = <<>>
    /\ pFound' = NoPlugin
    /\ pHist' = [given |-> 0, nulls |-> 0, asked |-> "", names |-> {}, dup |-> FALSE]
    /\ UNCHANGED exceptPlugins

\* new PluginManager()
PluginInit ==
    /\ plugins = <<>>
    /\ pOp = "new"
    /\ pSorted = <<>>
    /\ pFound = NoPlugin
    /\ pHist = [given |-> 0, nulls |-> 0, asked |-> "", names |-> {}, dup |-> FALSE]

PluginIdle == PluginInit

PluginNext ==
    \/ \E plugin \in PluginValues \cup {NoPlugin} : RegisterPlugin(plugin)
    \/ \E batch \in SeqsUpTo(PluginValues \cup {NoPlugin}, MaxBatch) : RegisterPlugins(batch)
    \/ GetPlugins
    \/ \E name \in PluginNames : GetPlugin(name)
    \/ ClearPlugins

-----------------------------------------------------------------------------
(* SearchService.search: the plugin fan-out *)

MaxConc == 2        \* the effective concurrency is drawn from 1..MaxConc
MaxResults == 1     \* a plugin returns at most MaxResults results
MaxSearchTime == 3  \* the clock of the service runs from 0 to MaxSearchTime

\* how long a plugin's search() takes, and the timeouts it races against: the
\* configured pluginTimeoutMs and the override ext.__plugin_timeout_ms
Durations == {1, 3}
PluginTimeouts == {2}
TimeoutOverrides == {4}

\* what a plugin's search() does: after dur it resolves with count results,
\* each carrying one link of every type in types, or it throws (rejects)
Outcome(kind, count, dur, types) ==
    [kind |-> kind, count |-> count, dur |-> dur, types |-> types]

Throws == Outcome("throw", 0, 1, {})

\* quick plugins without links
Behaviours == {Outcome("ok", count, 1, {}) : count \in 0..MaxResults} \cup {Throws}

\* plugins that may be slower than the timeout
TimedBehaviours ==
    {Outcome("ok", count, dur, {}) : count \in 0..MaxResults, dur \in Durations}
        \cup {Throws}

\* n quick plugins whose results carry links: one link those of the first
\* plugin, a link of each type those of the others
LinkedBehaviours(n) ==
    {[i \in 1..n |->
        Outcome("ok", counts[i], 1, IF i = 1 THEN {"baidu"} ELSE {"baidu", "aliyun"})] :
     counts \in [1..n -> 0..MaxResults]}

AllBehaviours ==
    [kind : {"ok", "throw"}, count : 0..MaxResults, dur : Durations, types : SUBSET Types]

\* the extension bag: the timeout override is absent (<<>>) or present
ExtBags == {[timeout |-> <<>>]} \cup {[timeout |-> <<t>>] : t \in TimeoutOverrides}

\* the request profile; cloudTypes is <<>> without a filter, <<list>> with one
Request(kw, forceRefresh, res, cloudTypes, ext) ==
    [kw |-> kw, forceRefresh |-> forceRefresh, res |-> res, src |-> "plugin",
     cloudTypes |-> cloudTypes, ext |-> ext]

PlainRequest == Request("k1", TRUE, "results", <<>>, [timeout |-> <<>>])

TimedRequests == {Request("k1", TRUE, "results", <<>>, ext) : ext \in ExtBags}

ShapedRequests ==
    {Request("k1", forceRefresh, res, cloudTypes, [timeout |-> <<>>]) :
        forceRefresh \in BOOLEAN, res \in {"results", "merged_by_type", "all"},
        cloudTypes \in {<<>>, <<{"baidu"}>>, <<{"aliyun"}>>}}

\* SearchServiceOptions
ServiceOptions(cacheEnabled) ==
    [pluginTimeoutMs |-> CHOOSE t \in PluginTimeouts : TRUE,
     cacheEnabled |-> cacheEnabled, cacheTtl |-> 2]

RECURSIVE SumTo(_, _)
SumTo(counts, n) == IF n = 0 THEN 0 ELSE counts[n] + SumTo(counts, n - 1)

\* the batch of the i-th selected plugin: the selection is cut into batches of the
\* effective concurrency
batchOf(i, conc) == ((i - 1) \div conc) + 1

\* the calls that have started and not completed by success, failure or timeout
InFlight == Cardinality({i \in 1..Len(sSel) : sState[i] = "running"})
Settled(i) == sState[i] \in {"done", "failed", "timedout", "late"}

\* the timeout a plugin call races against
effectiveTimeout(ext, pluginTimeoutMs) ==
    IF ext.timeout # <<>> THEN ext.timeout[1] ELSE pluginTimeoutMs

\* a plugin of the current batch may be invoked while the limiter has room
mayInvoke_unbounded(i) == sState[i] = "waiting"

mayInvoke(i) ==
    /\ sState[i] = "waiting"
    /\ batchOf(i, sConc) = sBatch
    /\ InFlight < sConc

\* a failure of one plugin is caught: the call goes on
phaseAfterFailure_propagates == "thrown"

phaseAfterFailure == "running"

\* a result that arrives after the timeout is dropped
collectLate_kept(counts, i, count) == [counts EXCEPT ![i] = count]

collectLate(counts, i, count) == counts

\* the key of the cache: keyword, source selector and the selection
cacheKeyOf_filtered(req, sel) ==
    <<req.kw, req.src, [i \in 1..Len(sel) |-> sel[i].name], req.cloudTypes>>

cacheKeyOf(req, sel) == <<req.kw, req.src, [i \in 1..Len(sel) |-> sel[i].name]>>

\* the entry of the cache under key that has not expired at t, if any; total
\* and by are history fields, the total of the response of the search that
\* populated the entry and the cloud-type filter of its request
NoEntry == [key |-> <<>>, value |-> <<>>, expireAt |-> 0, total |-> 0, by |-> <<>>]

cacheGet(cache, key, t) ==
    IF \E e \in cache : e.key = key /\ isFresh(e, t)
    THEN CHOOSE e \in cache : e.key = key /\ isFresh(e, t)
    ELSE NoEntry

cacheSet(cache, e) == {old \in cache : old.key # e.key} \cup {e}

\* the raw results collected from the selected plugins: per plugin the number of
\* its results and the link types each of them carries
rawResults(counts, behav) ==
    [i \in DOMAIN counts |->
        [count |-> counts[i], types |-> IF counts[i] > 0 THEN behav[i].types ELSE {}]]

RawCounts(raw) == [i \in DOMAIN raw |-> raw[i].count]

LinkCounts(raw, type) ==
    [i \in DOMAIN raw |-> IF type \in raw[i].types THEN raw[i].count ELSE 0]

\* total of the response: the number of raw results
totalOf_links(raw) ==
    SumTo(LinkCounts(raw, "baidu"), Len(raw)) + SumTo(LinkCounts(raw, "aliyun"), Len(raw))

totalOf(raw) == SumTo(RawCounts(raw), Len(raw))

\* the links of the raw results grouped by type: per type that has a link, the
\* number of its links (every result has its own URLs)
mergeByType(raw) ==
    [type \in {t \in Types : SumTo(LinkCounts(raw, t), Len(raw)) > 0} |->
        SumTo(LinkCounts(raw, type), Len(raw))]

\* the cloud-type filter: the types outside the list are dropped
filterTypes_emptied(merged, cloudTypes) ==
    IF cloudTypes = <<>> THEN merged
    ELSE [type \in DOMAIN merged |-> IF type \in cloudTypes[1] THEN merged[type] ELSE 0]

filterTypes(merged, cloudTypes) ==
    IF cloudTypes = <<>> THEN merged
    ELSE [type \in DOMAIN merged \cap cloudTypes[1] |-> merged[type]]

\* the fields of the response that follow the requested shape
fieldsOf(res) ==
    (IF res \in {"results", "all"} THEN {"results"} ELSE {}) \cup
    (IF res \in {"merged_by_type", "all"} THEN {"merged_by_type"} ELSE {})

NoResponse == [total |-> 0, fields |-> {}, results |-> <<>>, merged_by_type |-> <<>>]

\* shaping: total, and results and merged_by_type where the shape has them
shape(raw, req) ==
    [total |-> totalOf(raw),
     fields |-> fieldsOf(req.res),
     results |-> IF "results" \in fieldsOf(req.res) THEN raw ELSE <<>>,
     merged_by_type |-> IF "merged_by_type" \in fieldsOf(req.res)
                        THEN filterTypes(mergeByType(raw), req.cloudTypes)
                        ELSE <<>>]

\* the call is served from the cache
isHit(req, opts, entry) == opts.cacheEnabled /\ ~req.forceRefresh /\ entry # NoEntry

\* search(...) starts: every registered plugin is selected, in priority order;
\* on a cache hit the response is shaped from the cached value at once
StartSearch(conc, req, behav) ==
    /\ sPhase = "idle"
    /\ plugins # <<>>
    /\ behav \in [1..Len(plugins) -> AllBehaviours]
    /\ LET sel == getPlugins(plugins)
           entry == cacheGet(sCache, cacheKeyOf(req, sel), sNow)
           hit == isHit(req, sOpts, entry)
       IN /\ sPhase' = IF hit THEN "returned" ELSE "running"
          /\ sSel' = sel
          /\ sBehav' = IF hit THEN [i \in 1..Len(plugins) |-> Throws] ELSE behav
          /\ sResp' = IF hit THEN shape(entry.value, req) ELSE NoResponse
          /\ sTotal' = IF hit THEN totalOf(entry.value) ELSE sTotal
          /\ sHit' = hit
    /\ sReq' = req
    /\ sState' = [i \in 1..Len(plugins) |-> "waiting"]
    /\ sConc' = conc
    /\ sBatch' = 1
    /\ sCounts' = [i \in 1..Len(plugins) |-> 0]
    /\ UNCHANGED <<sOpts, sCache, sNow>>
    /\ UNCHANGED exceptSearch

\* a plugin of the current batch is invoked, under the limiter
InvokePlugin(i) ==
    /\ sPhase = "running"
    /\ mayInvoke(i)
    /\ sState' = [sState EXCEPT ![i] = "running"]
    /\ UNCHANGED <<sPhase, sSel, sBehav, sConc, sBatch, sCounts, sTotal>>
    /\ UNCHANGED <<sReq, sOpts, sCache, sNow, sResp, sHit>>
    /\ UNCHANGED exceptSearch

\* a plugin's search() resolves before the timeout: its results are collected
PluginReturns(i) ==
    /\ sPhase = "running"
    /\ sState[i] = "running"
    /\ sBehav[i].kind = "ok"
    /\ sBehav[i].dur < effectiveTimeout(sReq.ext, sOpts.pluginTimeoutMs)
    /\ sState' = [sState EXCEPT ![i] = "done"]
    /\ sCounts' = [sCounts EXCEPT ![i] = sBehav[i].count]
    /\ UNCHANGED <<sPhase, sSel, sBehav, sConc, sBatch, sTotal>>
    /\ UNCHANGED <<sReq, sOpts, sCache, sNow, sResp, sHit>>
    /\ UNCHANGED exceptSearch

\* a plugin's search() throws or rejects: it contributes no result
PluginThrows(i) ==
    /\ sPhase = "running"
    /\ sState[i] = "running"
    /\ sBehav[i].kind = "throw"
    /\ sState' = [sState EXCEPT ![i] = "failed"]
    /\ sPhase' = phaseAfterFailure
    /\ UNCHANGED <<sSel, sBehav, sConc, sBatch, sCounts, sTotal>>
    /\ UNCHANGED <<sReq, sOpts, sCache, sNow, sResp, sHit>>
    /\ UNCHANGED exceptSearch

\* the timeout of a plugin call elapses before its search() has resolved: the
\* call is over for the search, with no result
PluginTimesOut(i) ==
    /\ sPhase = "running"
    /\ sState[i] = "running"
    /\ sBehav[i].kind = "ok"
    /\ sBehav[i].dur > effectiveTimeout(sReq.ext, sOpts.pluginTimeoutMs)
    /\ sState' = [sState EXCEPT ![i] = "timedout"]
    /\ UNCHANGED <<sPhase, sSel, sBehav, sConc, sBatch, sCounts, sTotal>>
    /\ UNCHANGED <<sReq, sOpts, sCache, sNow, sResp, sHit>>
    /\ UNCHANGED exceptSearch

\* the search() of a timed-out plugin resolves at last, during the call or
\* after it has returned
LateResult(i) ==
    /\ sPhase \in {"running", "returned"}
    /\ i \in 1..Len(sState)
    /\ sState[i] = "timedout"
    /\ sState' = [sState EXCEPT ![i] = "late"]
    /\ sCounts' = collectLate(sCounts, i, sBehav[i].count)
    /\ UNCHANGED <<sPhase, sSel, sBehav, sConc, sBatch, sTotal>>
    /\ UNCHANGED <<sReq, sOpts, sCache, sNow, sResp, sHit>>
    /\ UNCHANGED exceptSearch

\* every plugin of the current batch has settled: the next batch starts
NextBatch ==
    /\ sPhase = "running"
    /\ \A i \in 1..Len(sSel) : batchOf(i, sConc) = sBatch => Settled(i)
    /\ \E i \in 1..Len(sSel) : batchOf(i, sConc) > sBatch
    /\ sBatch' = sBatch + 1
    /\ UNCHANGED <<sPhase, sSel, sBehav, sState, sConc, sCounts, sTotal>>
    /\ UNCHANGED <<sReq, sOpts, sCache, sNow, sResp, sHit>>
    /\ UNCHANGED exceptSearch

\* every batch has run: the unfiltered result is cached if caching is enabled
\* and the response is built, total counts the raw results
ReturnResponse ==
    /\ sPhase = "running"
    /\ \A i \in 1..Len(sSel) : Settled(i)
    /\ LET raw == rawResults(sCounts, sBehav)
       IN /\ sTotal' = totalOf(raw)
          /\ sResp' = shape(raw, sReq)
          /\ sCache' = IF sOpts.cacheEnabled
                       THEN cacheSet(sCache,
                                [key |-> cacheKeyOf(sReq, sSel), value |-> raw,
                                 expireAt |-> expireAtOf(sNow, sOpts.cacheTtl),
                                 total |-> totalOf(raw), by |-> sReq.cloudTypes])
                       ELSE sCache
    /\ sPhase' = "returned"
    /\ UNCHANGED <<sSel, sBehav, sState, sConc, sBatch, sCounts>>
    /\ UNCHANGED <<sReq, sOpts, sNow, sHit>>
    /\ UNCHANGED exceptSearch

\* the caller has its response: the service is ready for the next call
NextCall ==
    /\ sPhase = "returned"
    /\ sPhase' = "idle"
    /\ sSel' = <<>>
    /\ sBehav' = <<>>
    /\ sState' = <<>>
    /\ sBatch' = 0
    /\ sCounts' = <<>>
    /\ sConc' = 1
    /\ sTotal' = 0
    /\ sReq' = PlainRequest
    /\ sResp' = NoResponse
    /\ sHit' = FALSE
    /\ UNCHANGED <<sOpts, sCache, sNow>>
    /\ UNCHANGED exceptSearch

\* time passes between two calls
SearchTick ==
    /\ sPhase = "idle"
    /\ sNow < MaxSearchTime
    /\ sNow' = sNow + 1
    /\ UNCHANGED <<sPhase, sSel, sBehav, sState, sConc, sBatch, sCounts, sTotal>>
    /\ UNCHANGED <<sReq, sOpts, sCache, sResp, sHit>>
    /\ UNCHANGED exceptSearch

\* new SearchService(options, pluginManager)
ServiceStart(opts) ==
    /\ sPhase = "idle"
    /\ sSel = <<>>
    /\ sBehav = <<>>
    /\ sState = <<>>
    /\ sConc = 1
    /\ sBatch = 0
    /\ sCounts = <<>>
    /\ sTotal = 0
    /\ sReq = PlainRequest
    /\ sOpts = opts
    /\ sCache = {}
    /\ sNow = 0
    /\ sResp = NoResponse
    /\ sHit = FALSE

SearchIdle == ServiceStart(ServiceOptions(FALSE))

\* the registries of a search: plugins of distinct names, registered in any order
HasDistinctNames(list) ==
    \A i, j \in 1..Len(list) : i # j => list[i].name # list[j].name

Registries ==
    {registerPlugins(<<>>, batch) :
        batch \in {b \in SeqsUpTo(PluginValues, MaxPlugins) : HasDistinctNames(b)}}

\* the registries of plugins of one priority
LineUps == {list \in Registries : \A i \in 1..Len(list) : list[i].priority = 1}

Registered(registry) ==
    /\ plugins = registry
    /\ pOp = "registerPlugins"
    /\ pSorted = <<>>
    /\ pFound = NoPlugin
    /\ pHist = [given |-> Len(registry), nulls |-> 0, asked |-> "",
                names |-> NamesOf(registry), dup |-> FALSE]

SearchInit ==
    /\ SearchIdle
    /\ \E registry \in Registries : Registered(registry)

SearchNext ==
    \/ \E conc \in 1..MaxConc, behav \in [1..Len(plugins) -> Behaviours] :
          StartSearch(conc, PlainRequest, behav)
    \/ \E i \in 1..Len(sSel) : InvokePlugin(i)
    \/ \E i \in 1..Len(sSel) : PluginReturns(i)
    \/ \E i \in 1..Len(sSel) : PluginThrows(i)
    \/ NextBatch
    \/ ReturnResponse

\* searches whose plugins may time out
TimeoutInit ==
    /\ SearchIdle
    /\ \E registry \in LineUps : Registered(registry)

TimeoutNext ==
    \/ \E conc \in 1..MaxConc, req \in TimedRequests,
          behav \in [1..Len(plugins) -> TimedBehaviours] : StartSearch(conc, req, behav)
    \/ \E i \in 1..Len(sSel) : InvokePlugin(i)
    \/ \E i \in 1..Len(sSel) : PluginReturns(i)
    \/ \E i \in 1..Len(sSel) : PluginThrows(i)
    \/ \E i \in 1..Len(sSel) : PluginTimesOut(i)
    \/ \E i \in 1..Len(sSel) : LateResult(i)
    \/ NextBatch
    \/ ReturnResponse

\* calls in a row, of every shape and filter, over two plugins taken one by one
RequestInit ==
    /\ \E cacheEnabled \in BOOLEAN : ServiceStart(ServiceOptions(cacheEnabled))
    /\ \E registry \in {list \in LineUps : <<"p1", "p2">> = [i \in 1..Len(list) |-> list[i].name]} :
          Registered(registry)

RequestNext ==
    \/ \E req \in ShapedRequests, behav \in LinkedBehaviours(Len(plugins)) :
          StartSearch(1, req, behav)
    \/ \E i \in 1..Len(sSel) : InvokePlugin(i)
    \/ \E i \in 1..Len(sSel) : PluginReturns(i)
    \/ NextBatch
    \/ ReturnResponse
    \/ NextCall
    \/ SearchTick

-----------------------------------------------------------------------------
(* The rate limit middleware *)

MaxRlTime == 3      \* the clock of the middleware runs from 0 to MaxRlTime

ClientIPs == {"ip1", "ip2"}

\* request URLs, cut into pieces so that startsWith is the prefix relation
RequestPaths == {<<"/api", "/search">>, <<"/api", "/health">>, <<"/api", "/health", "z">>}

\* skipPaths of DEFAULT_CONFIG
skipPaths == {<<"/api", "/health">>, <<"/api", "/hot-search-stats">>}

\* rateLimitConfig: a window of two time units, one or two requests per window
RateLimitConfigs == [windowMs : {2}, maxRequests : {1, 2}]

TooManyRequests == 429      \* HTTP_STATUS.TOO_MANY_REQUESTS

\* no record of an IP in the store
RlNone == [count |-> 0, resetTime |-> 0]

startsWith(path, prefix) ==
    /\ Len(prefix) <= Len(path)
    /\ SubSeq(path, 1, Len(prefix)) = prefix

\* cleanupExpired: every record with resetTime <= now is deleted
rlCleanupExpired(st, t) ==
    [ip \in ClientIPs |-> IF st[ip] # RlNone /\ st[ip].resetTime <= t THEN RlNone ELSE st[ip]]

\* checkRateLimit, after the optional cleanup: the store it leaves and its result
\* a variant that tests record.count > config.maxRequests
checkRateLimit_oneMore(st, ip, t, config) ==
    IF st[ip] = RlNone \/ st[ip].resetTime <= t
    THEN [store |-> [st EXCEPT ![ip] = [count |-> 1, resetTime |-> t + config.windowMs]],
          allowed |-> TRUE, remaining |-> config.maxRequests - 1,
          resetTime |-> t + config.windowMs]
    ELSE IF st[ip].count > config.maxRequests
         THEN [store |-> st, allowed |-> FALSE, remaining |-> 0,
               resetTime |-> st[ip].resetTime]
         ELSE [store |-> [st EXCEPT ![ip].count = st[ip].count + 1],
               allowed |-> TRUE, remaining |-> config.maxRequests - (st[ip].count + 1),
               resetTime |-> st[ip].resetTime]

checkRateLimit(st, ip, t, config) ==
    IF st[ip] = RlNone \/ st[ip].resetTime <= t
    THEN [store |-> [st EXCEPT ![ip] = [count |-> 1, resetTime |-> t + config.windowMs]],
          allowed |-> TRUE, remaining |-> config.maxRequests - 1,
          resetTime |-> t + config.windowMs]
    ELSE IF st[ip].count >= config.maxRequests
         THEN [store |-> st, allowed |-> FALSE, remaining |-> 0,
               resetTime |-> st[ip].resetTime]
         ELSE [store |-> [st EXCEPT ![ip].count = st[ip].count + 1],
               allowed |-> TRUE, remaining |-> config.maxRequests - (st[ip].count + 1),
               resetTime |-> st[ip].resetTime]

\* what the handler answers: next() or the 429 error
statusOf(allowed) == IF allowed THEN 0 ELSE TooManyRequests

RlNoRequest == [ip |-> "", skipped |-> FALSE, allowed |-> TRUE, remaining |-> 0,
                resetTime |-> 0, status |-> 0]

\* a request to a skipped path goes on to next() and is not counted
SkippedRequest(ip, path) ==
    /\ \E skipPath \in skipPaths : startsWith(path, skipPath)
    /\ rlLast' = [RlNoRequest EXCEPT !.ip = ip, !.skipped = TRUE]
    /\ UNCHANGED <<rlConfig, rlStore, rlNow, rlAllowed, rlSeen>>
    /\ UNCHANGED exceptRate

\* a request to another path; cleanup tells whether checkRateLimit ran
\* cleanupExpired first (store.size > 1000 || Math.random() < 0.01)
LimitedRequest(ip, path, cleanup) ==
    /\ ~ \E skipPath \in skipPaths : startsWith(path, skipPath)
    /\ LET st == IF cleanup THEN rlCleanupExpired(rlStore, rlNow) ELSE rlStore
           r == checkRateLimit(st, ip, rlNow, rlConfig)
       IN /\ rlStore' = r.store
          /\ rlAllowed' = IF r.allowed
                          THEN [rlAllowed EXCEPT ![ip][rlNow] = rlAllowed[ip][rlNow] + 1]
                          ELSE rlAllowed
          /\ rlSeen' = [rlSeen EXCEPT ![ip] =
                           IF rlStore[ip] = RlNone \/ rlStore[ip].resetTime <= rlNow
                           THEN 1
                           ELSE Min2(@ + 1, rlConfig.maxRequests + 1)]
          /\ rlLast' = [ip |-> ip, skipped |-> FALSE, allowed |-> r.allowed,
                        remaining |-> r.remaining, resetTime |-> r.resetTime,
                        status |-> statusOf(r.allowed)]
    /\ UNCHANGED <<rlConfig, rlNow>>
    /\ UNCHANGED exceptRate

RlTick ==
    /\ rlNow < MaxRlTime
    /\ rlNow' = rlNow + 1
    /\ rlLast' = RlNoRequest
    /\ UNCHANGED <<rlConfig, rlStore, rlAllowed, rlSeen>>
    /\ UNCHANGED exceptRate

\* the module is loaded: the store is empty
RateStart(config) ==
    /\ rlConfig = config
    /\ rlStore = [ip \in ClientIPs |-> RlNone]
    /\ rlNow = 0
    /\ rlAllowed = [ip \in ClientIPs |-> [t \in 0..MaxRlTime |-> 0]]
    /\ rlSeen = [ip \in ClientIPs |-> 0]
    /\ rlLast = RlNoRequest

RateInit == \E config \in RateLimitConfigs : RateStart(config)

RateIdle == RateStart([windowMs |-> 2, maxRequests |-> 1])

RateNext ==
    \/ \E ip \in ClientIPs, path \in RequestPaths : SkippedRequest(ip, path)
    \/ \E ip \in ClientIPs, path \in RequestPaths, cleanup \in BOOLEAN :
          LimitedRequest(ip, path, cleanup)
    \/ RlTick

-----------------------------------------------------------------------------
(* useSearch: performSearch, pauseSearch, continueSearch, resetSearch *)

MaxEnabled == 3     \* at most this many enabled plugins, and as many TG channels
MaxRuns == 3        \* at most this many calls of performSearch and continueSearch
MaxSeq == 2         \* searchSeq goes up to MaxSeq

\* settings: the numbers of enabled plugins and TG channels and the
\* concurrency setting (0: the setting is 0 or missing)
SearchSettings ==
    [enabledPlugins : 0..MaxEnabled, enabledTgChannels : 0..MaxEnabled,
     concurrency : {0, 1, 2}]

\* const conc = Math.min(16, Math.max(1, Number(settings.concurrency || 3)))
concOf(settings) ==
    Min2(16, Max2(1, IF settings.concurrency = 0 THEN 3 ELSE settings.concurrency))

\* the number of batches the loop of performDeepSearch cuts n sources into,
\* after the first batchSize of them went to the fast search
batchesOf(n, batchSize) ==
    LET rest == Max2(0, n - batchSize)
    IN (rest + batchSize - 1) \div batchSize

\* const maxLen = Math.max(pluginBatches.length, tgBatches.length)
maxLenOf(settings) ==
    Max2(batchesOf(settings.enabledPlugins, concOf(settings)),
         batchesOf(settings.enabledTgChannels, concOf(settings)))

\* settings.enabledPlugins and settings.enabledTgChannels: a source is named by
\* its position in the list
namesOf(n) == [k \in 1..n |-> k]

\* list.slice(start, end)
slice(list, start, end) == SubSeq(list, start + 1, Min2(end, Len(list)))

\* list.slice(start)
\* a variant that keeps the whole list
sliceFrom_whole(list, start) == list

sliceFrom(list, start) == slice(list, start, Len(list))

\* for (let i = 0; i < rest.length; i += batchSize)
\*     batches.push(rest.slice(i, i + batchSize))
RECURSIVE batchesFrom(_, _, _)
batchesFrom(rest, i, batchSize) ==
    IF i >= Len(rest) THEN <<>>
    ELSE <<slice(rest, i, i + batchSize)>> \o batchesFrom(rest, i + batchSize, batchSize)

\* pluginBatches and tgBatches of performDeepSearch
pluginBatches(settings) ==
    batchesFrom(sliceFrom(namesOf(settings.enabledPlugins), concOf(settings)),
                0, concOf(settings))
tgBatches(settings) ==
    batchesFrom(sliceFrom(namesOf(settings.enabledTgChannels), concOf(settings)),
                0, concOf(settings))

\* batchParams: the plugins of the src=plugin request and the channels of the
\* src=tg request; an empty list stands for a request that is not sent
batchParams(pb, tb) == [plugins |-> pb, channels |-> tb]

\* batchParams of performFastSearch
fastParams(settings) ==
    batchParams(slice(namesOf(settings.enabledPlugins), 0, concOf(settings)),
                slice(namesOf(settings.enabledTgChannels), 0, concOf(settings)))

\* batchParams of the loop of performDeepSearch at index i - 1
deepParams(settings, i) ==
    batchParams(IF i <= Len(pluginBatches(settings)) THEN pluginBatches(settings)[i]
                ELSE <<>>,
                IF i <= Len(tgBatches(settings)) THEN tgBatches(settings)[i]
                ELSE <<>>)

\* validateSearchOptions: an error message, or "" for null
validateSearchOptions(keyword, settings) ==
    IF keyword = "" THEN "empty keyword"
    ELSE IF settings.enabledTgChannels = 0 /\ settings.enabledPlugins = 0
         THEN "no source"
         ELSE ""

\* resetSearchState; merged is the set of the batches folded into
\* state.merged: 0 is the fast batch, i \in 1..maxLen the deep batch of index i - 1
ResetState ==
    [loading |-> FALSE, deepLoading |-> FALSE, paused |-> FALSE, error |-> "",
     searched |-> FALSE, merged |-> {}]

\* no batch completed yet, and no request failed
NoHist == [completed |-> {}, beforePause |-> {}, failed |-> FALSE]

\* a call of performSearch or continueSearch between two of its awaits:
\* kind is the function, mySeq its searchSeq, at is "fast" (awaiting the
\* fast batch), "deep" (awaiting the deep batch i) or "done", and aborted
\* tells whether the AbortControllers of the awaited requests were aborted;
\* sent is a history field, the batchParams of the batches the call has requested
RunOf(kind, mySeq, at, i) ==
    [kind |-> kind, mySeq |-> mySeq, at |-> at, i |-> i, aborted |-> FALSE,
     sent |-> <<>>]

\* the head of the loop of performDeepSearch at index i - 1: the loop is
\* left when the index reaches maxLen or the search is paused, otherwise the
\* requests of the batch are sent and awaited
deepHead(run, i, paused, maxLen) ==
    IF i > maxLen \/ paused THEN [run EXCEPT !.at = "done"]
    ELSE [run EXCEPT !.at = "deep", !.i = i, !.aborted = FALSE,
                     !.sent = Append(@, deepParams(uSettings, i))]

\* the finally blocks of performSearch and of continueSearch
finallyOf(kind, st) ==
    IF kind = "performSearch"
    THEN [st EXCEPT !.loading = IF st.paused THEN st.loading ELSE FALSE,
                    !.deepLoading = FALSE]
    ELSE [st EXCEPT !.deepLoading = FALSE]

\* the state a call leaves when it has come to run
afterRun(run, st) == IF run.at = "done" THEN finallyOf(run.kind, st) ELSE st

\* cancelActiveRequests: every request being awaited is aborted
cancelActiveRequests(runs) ==
    [r \in DOMAIN runs |->
        IF runs[r].at \in {"fast", "deep"} THEN [runs[r] EXCEPT !.aborted = TRUE]
        ELSE runs[r]]

\* performSearch with options that do not validate
RejectedSearch(keyword) ==
    /\ validateSearchOptions(keyword, uSettings) # ""
    /\ uState' = [uState EXCEPT !.error = validateSearchOptions(keyword, uSettings)]
    /\ UNCHANGED <<uSettings, searchSeq, uRuns, uHist>>
    /\ UNCHANGED exceptUse

\* performSearch up to the await of the fast search
PerformSearch(keyword) ==
    /\ validateSearchOptions(keyword, uSettings) = ""
    /\ Len(uRuns) < MaxRuns
    /\ searchSeq < MaxSeq
    /\ uState' = [uState EXCEPT !.loading = TRUE, !.error = "", !.searched = TRUE,
                                !.merged = {}, !.deepLoading = FALSE]
    /\ searchSeq' = searchSeq + 1
    /\ uRuns' = Append(uRuns, [RunOf("performSearch", searchSeq + 1, "fast", 0)
                                  EXCEPT !.sent = <<fastParams(uSettings)>>])
    /\ uHist' = NoHist
    /\ UNCHANGED uSettings
    /\ UNCHANGED exceptUse

\* the fast search returns (ok: a response came), and performSearch goes on
\* into performDeepSearch up to its first await
FastReturns(r, ok) ==
    /\ r \in DOMAIN uRuns
    /\ uRuns[r].at = "fast"
    /\ LET run == uRuns[r]
           merged == IF ok /\ ~run.aborted THEN {0} ELSE {}
           st == [uState EXCEPT !.merged = merged, !.deepLoading = TRUE]
           next == IF searchSeq # run.mySeq THEN [run EXCEPT !.at = "done"]
                   ELSE deepHead(run, 1, st.paused, maxLenOf(uSettings))
       IN /\ uRuns' = [uRuns EXCEPT ![r] = next]
          /\ uState' = IF searchSeq # run.mySeq THEN finallyOf(run.kind, uState)
                       ELSE afterRun(next, st)
          /\ uHist' = IF run.mySeq # searchSeq THEN uHist
                      ELSE IF ok /\ ~run.aborted
                           THEN [uHist EXCEPT !.completed = uHist.completed \cup {0}]
                           ELSE [uHist EXCEPT !.failed = uHist.failed \/ ~ok]
    /\ UNCHANGED <<uSettings, searchSeq>>
    /\ UNCHANGED exceptUse

\* the requests of a deep batch return, and the loop goes on to its next await
BatchReturns(r, ok) ==
    /\ r \in DOMAIN uRuns
    /\ uRuns[r].at = "deep"
    /\ LET run == uRuns[r]
           st == IF ok /\ ~run.aborted
                 THEN [uState EXCEPT !.merged = uState.merged \cup {run.i}]
                 ELSE uState
           next == deepHead(run, run.i + 1, st.paused, maxLenOf(uSettings))
       IN /\ uRuns' = [uRuns EXCEPT ![r] = next]
          /\ uState' = afterRun(next, st)
          /\ uHist' = IF run.mySeq # searchSeq THEN uHist
                      ELSE IF ok /\ ~run.aborted
                           THEN [uHist EXCEPT !.completed = uHist.completed \cup {run.i}]
                           ELSE [uHist EXCEPT !.failed = uHist.failed \/ ~ok]
    /\ UNCHANGED <<uSettings, searchSeq>>
    /\ UNCHANGED exceptUse

PauseSearch ==
    /\ uState.loading \/ uState.deepLoading
    /\ uState' = [uState EXCEPT !.paused = TRUE]
    /\ uRuns' = cancelActiveRequests(uRuns)
    /\ uHist' = [uHist EXCEPT !.beforePause = uHist.completed]
    /\ UNCHANGED <<uSettings, searchSeq>>
    /\ UNCHANGED exceptUse

\* continueSearch up to the first await of performDeepSearch
ContinueSearch ==
    /\ uState.paused /\ uState.searched
    /\ Len(uRuns) < MaxRuns
    /\ LET st == [uState EXCEPT !.paused = FALSE, !.deepLoading = TRUE]
           next == deepHead(RunOf("continueSearch", searchSeq, "deep", 1), 1,
                            st.paused, maxLenOf(uSettings))
       IN /\ uRuns' = Append(uRuns, next)
          /\ uState' = afterRun(next, st)
    /\ UNCHANGED <<uSettings, searchSeq, uHist>>
    /\ UNCHANGED exceptUse

\* cancelActiveRequests, as useSearch() exports it
CancelActiveRequests ==
    /\ \E r \in DOMAIN uRuns : uRuns[r].at \in {"fast", "deep"} /\ ~uRuns[r].aborted
    /\ uRuns' = cancelActiveRequests(uRuns)
    /\ uHist' = [uHist EXCEPT !.failed = TRUE]
    /\ UNCHANGED <<uSettings, uState, searchSeq>>
    /\ UNCHANGED exceptUse

ResetSearch ==
    /\ searchSeq < MaxSeq
    /\ uRuns' = cancelActiveRequests(uRuns)
    /\ searchSeq' = searchSeq + 1
    /\ uState' = ResetState
    /\ uHist' = NoHist
    /\ UNCHANGED uSettings
    /\ UNCHANGED exceptUse

\* useSearch(): nothing searched yet
UseStart(settings) ==
    /\ uSettings = settings
    /\ uState = ResetState
    /\ searchSeq = 0
    /\ uRuns = <<>>
    /\ uHist = NoHist

UseInit == \E settings \in SearchSettings : UseStart(settings)

UseIdle == UseStart([enabledPlugins |-> 0, enabledTgChannels |-> 0, concurrency |-> 0])

\* the searches that are neither paused, cancelled nor reset, with concurrency
\* settings below, inside and above the range [1, 16]
BatchSettings ==
    [enabledPlugins : 0..MaxEnabled, enabledTgChannels : 0..MaxEnabled,
     concurrency : {-1, 0, 1, 2, 20}]

BatchesInit == \E settings \in BatchSettings : UseStart(settings)

BatchesNext ==
    \/ \E keyword \in {"", "kw"} : RejectedSearch(keyword)
    \/ \E keyword \in {"", "kw"} : PerformSearch(keyword)
    \/ \E r \in 1..MaxRuns, ok \in BOOLEAN : FastReturns(r, ok)
    \/ \E r \in 1..MaxRuns, ok \in BOOLEAN : BatchReturns(r, ok)

UseNext ==
    \/ \E keyword \in {"", "kw"} : RejectedSearch(keyword)
    \/ \E keyword \in {"", "kw"} : PerformSearch(keyword)
    \/ \E r \in 1..MaxRuns, ok \in BOOLEAN : FastReturns(r, ok)
    \/ \E r \in 1..MaxRuns, ok \in BOOLEAN : BatchReturns(r, ok)
    \/ PauseSearch
    \/ ContinueSearch
    \/ CancelActiveRequests
    \/ ResetSearch

-----------------------------------------------------------------------------
(* The search handlers: GET /api/search and POST /api/search *)

\* an optional parameter is <<>> when absent and <<v>> when given
Absent == <<>>

\* kw, after trim(): its length and whether it matches the character pattern
ApiKeywords ==
    {[len |-> 0, legal |-> TRUE], [len |-> 4, legal |-> TRUE],
     [len |-> 4, legal |-> FALSE], [len |-> 101, legal |-> TRUE]}

\* a comma-separated list parameter is the sequence of its pieces
ApiRequests ==
    [kw : ApiKeywords,
     conc : {Absent, <<1>>, <<999>>},
     src : {Absent, <<"all">>, <<"tg">>, <<"plugin">>, <<"invalid">>},
     channels : {Absent, <<<<"c1", "">>>>},
     plugins : {Absent, <<<<"p1">>>>}]

\* .transform((val) => val ? val.split(',').filter(Boolean) : undefined)
parseNames(raw) ==
    IF raw = Absent THEN Absent ELSE <<SelectSeq(raw[1], LAMBDA piece : piece # "")>>

\* SearchRequestSchema.safeParse: success, and the parsed data
safeParseOk(req) ==
    /\ req.kw.len >= 1 /\ req.kw.len <= 100 /\ req.kw.legal
    /\ req.conc # Absent => (req.conc[1] >= 1 /\ req.conc[1] <= 20)
    /\ req.src # Absent => req.src[1] \in {"all", "tg", "plugin"}
    /\ parseNames(req.channels) # Absent => Len(parseNames(req.channels)[1]) <= 50
    /\ parseNames(req.plugins) # Absent => Len(parseNames(req.plugins)[1]) <= 20

safeParseData(req) ==
    [kw |-> req.kw, conc |-> req.conc,
     src |-> IF req.src = Absent THEN "all" ELSE req.src[1],
     channels |-> parseNames(req.channels),
     plugins |-> parseNames(req.plugins)]

\* if (req.src === "tg") req.plugins = undefined;
\* else if (req.src === "plugin") req.channels = undefined;
exclusive(data) ==
    IF data.src = "tg" THEN [data EXCEPT !.plugins = Absent]
    ELSE IF data.src = "plugin" THEN [data EXCEPT !.channels = Absent]
    ELSE data

\* AppError.badRequest('VALIDATION_ERROR', ...)
validationError == [code |-> "VALIDATION_ERROR", statusCode |-> 400]

\* createErrorResponse(appError): the status code is nested under error
createErrorResponse(error) ==
    [code |-> error.code, data |-> Absent, error |-> [statusCode |-> error.statusCode]]

\* h3 sendError(event, input) with a plain object: the status is input.statusCode,
\* 500 when the object has none, and the body is { statusCode, statusMessage,
\* stack, data }
sendError(input) ==
    [status |-> IF "statusCode" \in DOMAIN input THEN input.statusCode ELSE 500,
     body |-> [statusCode |-> IF "statusCode" \in DOMAIN input
                              THEN input.statusCode ELSE 500,
               data |-> input.data]]

\* the code field of a response body, "" when it has none
codeOf(body) == IF "code" \in DOMAIN body THEN body.code ELSE ""

NoCall == [called |-> FALSE, src |-> "", channels |-> Absent, plugins |-> Absent]
NoApiResponse == [status |-> 0, code |-> ""]

\* service.search(req.kw, req.channels, ..., req.src, req.plugins, ...)
searchCall(data) ==
    [called |-> TRUE, src |-> data.src, channels |-> data.channels,
     plugins |-> data.plugins]

\* the success response: { code: 0, message, data }
successResponse == [status |-> 200, code |-> "0"]

\* search.get: the catch block sets event.node.res.statusCode and returns
\* createErrorResponse(appError)
GetSearch(req) ==
    /\ aHandler' = "get"
    /\ aReq' = req
    /\ IF safeParseOk(req)
       THEN /\ aCall' = searchCall(exclusive(safeParseData(req)))
            /\ aResp' = successResponse
       ELSE /\ aCall' = NoCall
            /\ aResp' = [status |-> validationError.statusCode,
                         code |-> codeOf(createErrorResponse(validationError))]
    /\ UNCHANGED exceptApi

\* search.post: the catch block returns sendError(event, createErrorResponse(appError))
PostSearch(req) ==
    /\ aHandler' = "post"
    /\ aReq' = req
    /\ IF safeParseOk(req)
       THEN /\ aCall' = searchCall(exclusive(safeParseData(req)))
            /\ aResp' = successResponse
       ELSE /\ aCall' = NoCall
            /\ aResp' = [status |-> sendError(createErrorResponse(validationError)).status,
                         code |-> codeOf(sendError(createErrorResponse(validationError)).body)]
    /\ UNCHANGED exceptApi

ApiIdle ==
    /\ aHandler = "none"
    /\ aReq = [kw |-> [len |-> 0, legal |-> TRUE], conc |-> Absent, src |-> Absent,
               channels |-> Absent, plugins |-> Absent]
    /\ aCall = NoCall
    /\ aResp = NoApiResponse

ApiInit == ApiIdle

ApiNext ==
    \/ \E req \in ApiRequests : GetSearch(req)
    \/ \E req \in ApiRequests : PostSearch(req)

-----------------------------------------------------------------------------
(* The specifications *)

CacheIdle ==
    /\ options = [maxSize |-> 1, maxMemoryBytes |-> 1000,
                  cleanupInterval |-> 2, memoryThreshold |-> ThresholdPct]
    /\ store = <<>>
    /\ lastCleanup = 0
    /\ metrics = [hits |-> 0, misses |-> 0, evictions |-> 0]
    /\ now = 2
    /\ last = NoOp
    /\ lastSet = NoRecord
    /\ gets = 0
    /\ recency = <<>>

InitCache == CacheInit /\ MergeIdle /\ PluginIdle /\ SearchIdle /\ RateIdle /\ UseIdle /\ ApiIdle
SpecCache == InitCache /\ [][CacheNext]_vars

InitPass == PassInit /\ MergeIdle /\ PluginIdle /\ SearchIdle /\ RateIdle /\ UseIdle /\ ApiIdle
SpecPass == InitPass /\ [][CacheNext]_vars

InitMerge == MergeInit /\ CacheIdle /\ PluginIdle /\ SearchIdle /\ RateIdle /\ UseIdle /\ ApiIdle
SpecMerge == InitMerge /\ [][MergeNext]_vars

InitPlugins == PluginInit /\ CacheIdle /\ MergeIdle /\ SearchIdle /\ RateIdle /\ UseIdle /\ ApiIdle
SpecPlugins == InitPlugins /\ [][PluginNext]_vars

InitSearch == SearchInit /\ CacheIdle /\ MergeIdle /\ RateIdle /\ UseIdle /\ ApiIdle
SpecSearch == InitSearch /\ [][SearchNext]_vars

InitTimeout == TimeoutInit /\ CacheIdle /\ MergeIdle /\ RateIdle /\ UseIdle /\ ApiIdle
SpecTimeout == InitTimeout /\ [][TimeoutNext]_vars

InitRequest == RequestInit /\ CacheIdle /\ MergeIdle /\ RateIdle /\ UseIdle /\ ApiIdle
SpecRequest == InitRequest /\ [][RequestNext]_vars

InitRate == RateInit /\ CacheIdle /\ MergeIdle /\ PluginIdle /\ SearchIdle /\ UseIdle /\ ApiIdle
SpecRate == InitRate /\ [][RateNext]_vars

InitUse == UseInit /\ CacheIdle /\ MergeIdle /\ PluginIdle /\ SearchIdle /\ RateIdle /\ ApiIdle
SpecUse == InitUse /\ [][UseNext]_vars

InitBatches ==
    BatchesInit /\ CacheIdle /\ MergeIdle /\ PluginIdle /\ SearchIdle /\ RateIdle /\ ApiIdle
SpecBatches == InitBatches /\ [][BatchesNext]_vars

InitApi ==
    ApiInit /\ CacheIdle /\ MergeIdle /\ PluginIdle /\ SearchIdle /\ RateIdle /\ UseIdle
SpecApi == InitApi /\ [][ApiNext]_vars

-----------------------------------------------------------------------------
(* MemoryCache: properties *)

MemoryOf(st) == calculateMemoryUsage(st)
AllFresh(st) == \A i \in 1..Len(st) : st[i].expireAt > now
IsPublicCacheOp == last.op \in {"get", "set", "delete", "clear", "forceCleanup"}

\* the situation of C1, for a set() that takes store to store': N distinct keys are
\* stored, none is expired, the key is new and the new record fits under the cap
LRUCase ==
    /\ last'.op = "set"
    /\ Len(store) = options.maxSize
    /\ last'.key \notin KeysOf(store)
    /\ AllFresh(store)
    /\ MemoryOf(store) + store'[Len(store')].size <= options.maxMemoryBytes

\* exactly the least-recently-used record is gone, the others are kept in order
LRUEffect ==
    /\ SubSeq(store', 1, Len(store') - 1) = Tail(store)
    /\ store'[Len(store')].key = last'.key

UnderThreshold ==
    MemoryOf(store) * 100 <= options.memoryThreshold * options.maxMemoryBytes

\* C1 as stated: with maxSize = N, no entry expired and the memory cap not reached,
\* a set() of a new key on N stored keys removes exactly the least-recently-used
\* entry and keeps every other one.
C1_LRUAsStated == [][LRUCase => LRUEffect]_cacheVars

\* C1 amended: the same, provided the memory in use is also not above
\* memoryThreshold x maxMemoryBytes (otherwise the cleanup pass of the set() may
\* evict further entries).
C1_LRU == [][(LRUCase /\ UnderThreshold) => LRUEffect]_cacheVars

\* a set() at full capacity evicted one record, right after a get() hit refreshed
\* the other one
C1_Witness ==
    /\ last.op = "set" /\ last.lru = 1 /\ last.purged = 0 /\ last.pass = 0
    /\ options.maxSize = 2 /\ Len(store) = 2
    /\ metrics.hits = 1
    /\ AllFresh(store)

\* a get() of a stored key before setAt + max(0, ttlMs) of its record, in which the
\* cleanup pass evicts nothing
GetFreshCase ==
    /\ last'.op = "get"
    /\ last'.key \in KeysOf(store)
    /\ now < RecordOf(store, last'.key).setAt + Max2(0, RecordOf(store, last'.key).ttl)
    /\ metrics'.evictions = metrics.evictions

\* a get() returned a hit: the record is the most recent one of the store and the
\* time is before setAt + max(0, ttlMs)
GetHitEffect ==
    /\ store' # <<>>
    /\ store'[Len(store')].key = last'.key
    /\ now' < store'[Len(store')].setAt + Max2(0, store'[Len(store')].ttl)

C3_MemoryBound == IsPublicCacheOp => MemoryOf(store) <= options.maxMemoryBytes

\* the records a step evicts (expired records that are purged are not evictions)
Evicted == metrics'.evictions - metrics.evictions

\* C4 as stated: the store never holds more than maxSize records, expired ones
\* included, and a set() of a new key at full capacity evicts exactly the one record
\* that leaves room for the new one (taken where no record is expired and the new
\* record fits under the memory cap, so that one eviction is exactly enough).
C4_ItemBoundAsStated ==
    [][/\ Len(store') <= options.maxSize
       /\ LRUCase => Evicted = 1]_cacheVars

\* C4 amended: the same, provided the memory in use is not above
\* memoryThreshold x maxMemoryBytes when the set() starts; a set() that evicts by
\* count always evicts one record and leaves the store full.
C4_ItemBound ==
    [][/\ Len(store') <= options.maxSize
       /\ (LRUCase /\ UnderThreshold) => (Evicted = 1 /\ Len(store') = options.maxSize)
       /\ (last'.op = "set" /\ last'.lru > 0) =>
             (last'.lru = 1 /\ Len(store') = options.maxSize)]_cacheVars

\* a set() evicted by count while an expired record is still counted in the store
C4_Witness ==
    /\ last.op = "set" /\ last.lru = 1 /\ last.purged = 0 /\ last.pass = 0
    /\ metrics.evictions = 1
    /\ Len(store) = options.maxSize
    /\ \E i \in 1..Len(store) : store[i].expireAt <= now

\* the records of the Map st that are not expired
Unexpired(st) == SelectSeq(st, LAMBDA rec : rec.expireAt > now)

\* the record a set() step leaves at the most-recently-used end of the Map
NewestRecord == store'[Len(store')]

\* the situation of C18, for a set() that takes store to store': the key is stored,
\* and the memory cap permits: the store is not over the cap and the new record
\* fits in place of the old one
ResetCase ==
    /\ last'.op = "set"
    /\ last'.key \in KeysOf(store)
    /\ MemoryOf(store) <= options.maxMemoryBytes
    /\ MemoryOf(WithoutKey(store, last'.key)) + lastSet'.size <= options.maxMemoryBytes

\* the record of the key is replaced by the new one, which is the most recently
\* used; every other record is kept, in order
ResetEffect ==
    /\ store' = Append(WithoutKey(store, last'.key), NewestRecord)
    /\ NewestRecord.key = last'.key
    /\ NewestRecord.value = lastSet'.value
    /\ NewestRecord.expireAt = now + Max2(0, lastSet'.ttl)
    /\ NewestRecord.size = 2 * Len(lastSet'.value)
    /\ Len(store') = Len(store)
    /\ MemoryOf(store') = MemoryOf(WithoutKey(store, last'.key)) + NewestRecord.size

OthersFresh == \A i \in 1..Len(store) :
                   store[i].key # last'.key => store[i].expireAt > now

\* C18 as stated: set(k, v2, ttl) on a stored key k replaces its value, expiry and
\* size, makes k the most recently used, leaves the entry count unchanged and, the
\* memory cap permitting, evicts no other entry; the old size is not counted.
C18_ResetAsStated == [][ResetCase => ResetEffect]_cacheVars

\* C18 amended: the same, provided no other entry is expired and the memory in use
\* is not above memoryThreshold x maxMemoryBytes (the cleanup pass of the set()
\* purges expired entries and may evict above the threshold).
C18_Reset == [][(ResetCase /\ OthersFresh /\ UnderThreshold) => ResetEffect]_cacheVars

\* a set() of a stored key at full capacity, in which the cleanup pass ran, removed
\* nothing
C18_Witness ==
    /\ last.op = "set" /\ last.had /\ last.ran
    /\ last.purged = 0 /\ last.lru = 0 /\ last.mem = 0 /\ last.pass = 0
    /\ options.maxSize = 2 /\ Len(store) = 2
    /\ AllFresh(store)

\* the situation of C19: a set() of a new key finds the store at the item cap, or the
\* insert over the memory cap, and without the expired records there is room
ExpiredFirstCase ==
    /\ last'.op = "set"
    /\ last'.key \notin KeysOf(store)
    /\ \/ Len(store) >= options.maxSize
       \/ MemoryOf(store) + lastSet'.size > options.maxMemoryBytes
    /\ Len(Unexpired(store)) < options.maxSize
    /\ MemoryOf(Unexpired(store)) + lastSet'.size <= options.maxMemoryBytes

\* every unexpired record is kept and the evictions counter does not change
ExpiredFirstEffect ==
    /\ store' = Append(Unexpired(store), NewestRecord)
    /\ Evicted = 0

\* C19 as stated: when purging the expired entries alone makes enough room for the
\* new key, no unexpired entry is removed and the evictions counter does not change.
C19_ExpiredFirstAsStated == [][ExpiredFirstCase => ExpiredFirstEffect]_cacheVars

\* C19 amended: the same, provided the memory in use by the unexpired entries is not
\* above memoryThreshold x maxMemoryBytes.
C19_ExpiredFirst ==
    [][(/\ ExpiredFirstCase
        /\ MemoryOf(Unexpired(store)) * 100
              <= options.memoryThreshold * options.maxMemoryBytes)
       => ExpiredFirstEffect]_cacheVars

\* a set() of a new key at the item cap purged one expired record itself (no cleanup
\* pass ran) and evicted nothing
C19_Witness ==
    /\ last.op = "set" /\ ~last.had /\ ~last.ran
    /\ last.purged = 1 /\ last.lru = 0 /\ last.mem = 0
    /\ metrics.evictions = 0
    /\ options.maxSize = 2 /\ Len(store) = 2

\* the situation of C20: a get(k) follows set(k, v, ttlMs), ttlMs > 0, before the
\* expiry, with no other set, delete, clear or forceCleanup in between
RoundTripCase ==
    /\ last'.op = "get"
    /\ last'.key = lastSet.key
    /\ lastSet.ttl > 0
    /\ now < lastSet.setAt + lastSet.ttl

RoundTripEffect ==
    /\ last'.hit
    /\ NewestRecord.key = lastSet.key
    /\ NewestRecord.value = lastSet.value

\* C20 as stated: such a get(k) returns a hit with the value v.
C20_RoundTripAsStated == [][RoundTripCase => RoundTripEffect]_cacheVars

\* C20 amended: the same, provided the memory in use when the set() returned was not
\* above memoryThreshold x maxMemoryBytes.
C20_RoundTrip ==
    [][(/\ RoundTripCase
        /\ lastSet.mem * 100 <= options.memoryThreshold * options.maxMemoryBytes)
       => RoundTripEffect]_cacheVars

\* a get() hit the key of the last set() at a later time, after its cleanup pass ran
C20_Witness ==
    /\ last.op = "get" /\ last.hit /\ last.ran
    /\ last.key = lastSet.key
    /\ lastSet.ttl > 0 /\ now > lastSet.setAt
    /\ Len(store) = 2

\* C21: when forceCleanup() returns, whatever the time since the last cleanup
\* pass, the store holds no record whose expireAt is at or before the current
\* time, at most maxSize records, and at most maxMemoryBytes of estimated size.
C21_ForceCleanup ==
    last.op = "forceCleanup" =>
        /\ \A i \in 1..Len(store) : ~(store[i].expireAt <= now)
        /\ Len(store) <= options.maxSize
        /\ MemoryOf(store) <= options.maxMemoryBytes

\* a forceCleanup() inside the interval of the last pass found the store over the
\* memory cap and evicted
C21_Witness ==
    /\ last.op = "forceCleanup" /\ last.gated /\ last.ran
    /\ last.pass > 0

\* C22: every get() increments exactly one of hits and misses, hits exactly when it
\* returns a hit (an absent key and an expired record count as misses), so
\* hits + misses is the number of get() calls since construction or the last
\* clear(); set, delete and forceCleanup change neither counter.
C22_Counters ==
    [][/\ last'.op = "get" =>
             /\ metrics'.hits = metrics.hits + (IF last'.hit THEN 1 ELSE 0)
             /\ metrics'.misses = metrics.misses + (IF last'.hit THEN 0 ELSE 1)
       /\ last'.op \in {"set", "delete", "forceCleanup"} =>
             /\ metrics'.hits = metrics.hits
             /\ metrics'.misses = metrics.misses
       /\ metrics'.hits + metrics'.misses = gets']_cacheVars

\* a get() that found its record expired was counted as a miss
C22_Witness ==
    /\ last.op = "get" /\ ~last.hit /\ last.had
    /\ metrics.misses = 1 /\ metrics.hits = 0
    /\ gets = 1

\* the records of the Map st under the keys other than key, in order
OtherRecords(st, key) ==
    [i \in 1..Cardinality({j \in 1..Len(st) : st[j].key # key}) |->
        st[CHOOSE j \in 1..Len(st) :
              /\ st[j].key # key
              /\ Cardinality({l \in 1..j : st[l].key # key}) = i]]

\* C23: clear() empties the cache and resets hits, misses and evictions to zero, so
\* every key misses afterwards; delete(key) removes only that key and changes no
\* counter and no other entry.
C23_ClearDelete ==
    [][/\ last'.op = "clear" =>
             /\ store' = <<>>
             /\ metrics'.hits = 0 /\ metrics'.misses = 0 /\ metrics'.evictions = 0
       /\ (last.op = "clear" /\ last'.op = "get") =>
             (~last'.hit /\ metrics'.misses = 1 /\ metrics'.hits = 0)
       /\ last'.op = "delete" =>
             /\ last'.key \notin KeysOf(store')
             /\ store' = OtherRecords(store, last'.key)
             /\ metrics' = metrics]_cacheVars

\* a clear() emptied a store that held a record
C23_Witness ==
    /\ last.op = "clear" /\ last.had
    /\ store = <<>>
    /\ metrics.evictions = 0
    /\ lastCleanup > 0

\* the records a step removes while they are not expired: its victims
Victims ==
    {k \in KeysOf(store) \ KeysOf(store') : RecordOf(store, k).expireAt > now}

\* the keys the step found stored and leaves stored
Survivors ==
    (KeysOf(store') \cap KeysOf(store)) \ (IF last'.op = "set" THEN {last'.key} ELSE {})

RecencyOf(k) == CHOOSE i \in 1..Len(recency) : recency[i] = k

\* C27: every record removed by count eviction or memory eviction, in set() or in a
\* cleanup pass, was the least-recently-used record of the store when it was
\* removed, recency being the order of the last set() or get() hit: no eviction
\* removes a record while a less recently used one stays.
C27_Victims ==
    [][last'.op \in {"get", "set", "forceCleanup"} =>
          /\ \A v \in Victims : \A k \in Survivors : RecencyOf(v) < RecencyOf(k)
          /\ Cardinality(Victims) <= metrics'.evictions - metrics.evictions]_cacheVars

\* a forced pass evicted one of two unexpired records and kept the other, after a
\* get() hit
C27_Witness ==
    /\ last.op = "forceCleanup" /\ last.pass = 1 /\ last.purged = 0
    /\ metrics.hits = 1
    /\ Len(store) = 1
    /\ AllFresh(store)

\* C28: a cleanup pass performs the partial eviction exactly when the memory in use
\* at that point of the pass exceeds memoryThreshold x maxMemoryBytes; at or below
\* the threshold, also when the hard-cap eviction of the same pass brought the
\* usage there, the pass evicts no unexpired record for memory reasons.
C28_Threshold ==
    (last.op \in {"get", "set", "forceCleanup"} /\ last.ran) =>
        (last.thr > 0 <=> last.above)

\* the call of the step is issued less than cleanupInterval after the last pass
InsideInterval == now - lastCleanup < options.cleanupInterval

\* the new record of a set() step finds room without any eviction
RoomForSet ==
    /\ Len(WithoutKey(store, last'.key)) < options.maxSize
    /\ MemoryOf(WithoutKey(store, last'.key)) + lastSet'.size <= options.maxMemoryBytes

\* C29: a get() or set() issued less than cleanupInterval after the previous cleanup
\* pass does not run the pass: it removes no record other than through its own key
\* and the capacity enforcement of set, so expired records under other keys stay
\* stored and counted; a pass that runs records the current time as the new start
\* of the interval, and forceCleanup() always runs the pass.
C29_Gating ==
    [][/\ (last'.op \in {"get", "set"} /\ InsideInterval) =>
             /\ ~last'.ran
             /\ lastCleanup' = lastCleanup
             /\ (last'.op = "get" \/ RoomForSet) =>
                    OtherRecords(store', last'.key) = OtherRecords(store, last'.key)
       /\ (last'.op \in {"get", "set"} /\ ~InsideInterval) =>
             (last'.ran /\ lastCleanup' = now)
       /\ last'.op = "forceCleanup" => (last'.ran /\ lastCleanup' = now)]_cacheVars

\* a get() inside the interval left an expired record of another key stored
C29_Witness ==
    /\ last.op = "get" /\ ~last.ran
    /\ now - lastCleanup < options.cleanupInterval
    /\ \E i \in 1..Len(store) : store[i].key # last.key /\ store[i].expireAt <= now

-----------------------------------------------------------------------------
(* mergeMergedByType: properties *)

UrlsIn(list) == {list[i].url : i \in 1..Len(list)}
DistinctUrls(list) ==
    \A i, j \in 1..Len(list) : i # j => list[i].url # list[j].url
NoDupUrls(value) == \A t \in DOMAIN value : DistinctUrls(value[t])
ListOf(value, t) == IF t \in DOMAIN value THEN value[t] ELSE <<>>

TargetNow == Deref(mHeap, mTarget)
OutNow == Deref(mHeap, mOut)
Called == mPhase \in {"merged", "remerged"}

\* C5: folding incoming mappings from the empty mapping on, every list of the
\* folded mapping and of each call's result has pairwise-distinct URLs.
C5_Dedup ==
    mFromEmpty => /\ NoDupUrls(TargetNow)
                  /\ Called => NoDupUrls(OutNow)

\* a fold from the empty mapping reached a non-empty list, and the incoming list
\* repeats one of its URLs twice
C5_Witness ==
    /\ mFromEmpty /\ mPhase = "merged" /\ mIncoming # Null
    /\ \E t \in DOMAIN mSnap.target \cap DOMAIN mSnap.incoming :
          /\ Len(mSnap.incoming[t]) = 2
          /\ mSnap.incoming[t][1].url = mSnap.incoming[t][2].url
          /\ mSnap.incoming[t][1].url \in UrlsIn(mSnap.target[t])

\* C6: merging the same incoming mapping into the result once more returns a
\* mapping equal to the result: the same keys and the same lists in the same order.
C6_Idempotent == mPhase = "remerged" => Deref(mHeap, mOut2) = OutNow

\* the first merge added a link, and the incoming mapping was merged again
C6_Witness ==
    /\ mPhase = "remerged" /\ mIncoming # Null
    /\ \E t \in DOMAIN OutNow : Len(OutNow[t]) > Len(ListOf(mSnap.target, t))

\* the positions of an incoming list whose URL is neither in the target's list nor
\* at an earlier position of the incoming list
FirstSeen(tl, inc) ==
    {i \in 1..Len(inc) : /\ inc[i].url \notin UrlsIn(tl)
                         /\ \A j \in 1..(i - 1) : inc[j].url # inc[i].url}

RECURSIVE PickFrom(_, _, _)
PickFrom(inc, idx, i) ==
    IF i > Len(inc) THEN <<>>
    ELSE (IF i \in idx THEN <<inc[i]>> ELSE <<>>) \o PickFrom(inc, idx, i + 1)

\* C7: for every type of incoming, the result's list is the target's list followed
\* by the incoming links whose URL was not yet present, in incoming's order.
C7_Order ==
    (mPhase = "merged" /\ mIncoming # Null) =>
        \A t \in DOMAIN mSnap.incoming :
            /\ t \in DOMAIN OutNow
            /\ OutNow[t] = ListOf(mSnap.target, t)
                           \o PickFrom(mSnap.incoming[t],
                                       FirstSeen(ListOf(mSnap.target, t),
                                                 mSnap.incoming[t]), 1)

\* {baidu: [url1]} merged with {baidu: [url2, url1]} gave {baidu: [url1, url2]}
C7_Witness ==
    /\ mPhase = "merged" /\ mIncoming # Null
    /\ mSnap.target = ("baidu" :> <<[url |-> "url1", password |-> ""]>>)
    /\ mSnap.incoming = ("baidu" :> <<[url |-> "url2", password |-> ""],
                                      [url |-> "url1", password |-> ""]>>)
    /\ OutNow = ("baidu" :> <<[url |-> "url1", password |-> ""],
                              [url |-> "url2", password |-> ""]>>)

\* C8: after a call, target and incoming hold what they held when the call started:
\* the same keys, and per key the same links in the same order.
C8_Purity ==
    Called => /\ TargetNow = mSnap.target
              /\ mIncoming # Null => Deref(mHeap, mIncoming) = mSnap.incoming
              /\ mPhase = "remerged" => OutNow = mSnap.out

\* a call appended links to a list that the target already had
C8_Witness ==
    /\ mPhase = "merged" /\ mIncoming # Null
    /\ \E t \in DOMAIN mSnap.target :
          /\ mSnap.target[t] # <<>>
          /\ Len(OutNow[t]) > Len(mSnap.target[t])

\* C30: for every storage type the URLs of the result's list are the URLs of the
\* target's list and of the incoming list together; the result's keys are the keys
\* of both; a type only the target has keeps exactly the target's list; and an
\* absent incoming returns the target's content unchanged.
C30_NothingLost ==
    mPhase = "merged" =>
        IF mIncoming = Null
        THEN OutNow = mSnap.target
        ELSE /\ DOMAIN OutNow = DOMAIN mSnap.target \cup DOMAIN mSnap.incoming
             /\ \A t \in Types :
                   UrlsIn(ListOf(OutNow, t)) =
                      UrlsIn(ListOf(mSnap.target, t)) \cup UrlsIn(ListOf(mSnap.incoming, t))
             /\ \A t \in DOMAIN mSnap.target \ DOMAIN mSnap.incoming :
                   OutNow[t] = mSnap.target[t]

\* the target had a type the incoming mapping lacks, and the incoming mapping brought
\* a type the target lacks
C30_Witness ==
    /\ mPhase = "merged" /\ mIncoming # Null
    /\ \E t \in DOMAIN mSnap.target \ DOMAIN mSnap.incoming : mSnap.target[t] # <<>>
    /\ \E t \in DOMAIN mSnap.incoming \ DOMAIN mSnap.target : mSnap.incoming[t] # <<>>

\* C31: where target and incoming hold the same URL under the same type, the result
\* keeps target's record at its position and has no record of incoming for that URL,
\* whatever incoming's password is; a URL incoming brings under a type is in the
\* result's list of that type even if target holds it under another type.
C31_FirstWriter ==
    (mPhase = "merged" /\ mIncoming # Null) =>
        /\ \A t \in DOMAIN mSnap.target :
              /\ t \in DOMAIN OutNow
              /\ Len(OutNow[t]) >= Len(mSnap.target[t])
              /\ \A i \in 1..Len(mSnap.target[t]) : OutNow[t][i] = mSnap.target[t][i]
              /\ \A i \in (Len(mSnap.target[t]) + 1)..Len(OutNow[t]) :
                    OutNow[t][i].url \notin UrlsIn(mSnap.target[t])
        /\ \A t \in DOMAIN mSnap.incoming :
              UrlsIn(mSnap.incoming[t]) \subseteq UrlsIn(ListOf(OutNow, t))

\* target holds url1 without a password under baidu; incoming holds url1 with a
\* password under baidu and under aliyun, where target does not have it
C31_Witness ==
    /\ mPhase = "merged" /\ mIncoming # Null
    /\ mSnap.target = ("baidu" :> <<[url |-> "url1", password |-> ""]>>)
    /\ mSnap.incoming = ("baidu" :> <<[url |-> "url1", password |-> "pw"]>>)
                         @@ ("aliyun" :> <<[url |-> "url1", password |-> "pw"]>>)
    /\ OutNow["baidu"] = <<[url |-> "url1", password |-> ""]>>
    /\ OutNow["aliyun"] = <<[url |-> "url1", password |-> "pw"]>>

\* the arrays a mapping object refers to
ListRefs(obj) == {mHeap.objs[obj][t] : t \in DOMAIN mHeap.objs[obj]}

\* the mapping object out and its list under key t are reachable neither through
\* target nor through incoming
FreshObject(out, target, incoming) == out # target /\ out # incoming
FreshList(out, t, target, incoming) ==
    mHeap.objs[out][t] \notin
        ListRefs(target) \cup (IF incoming = Null THEN {} ELSE ListRefs(incoming))

\* C32 as stated: the mapping a call returns is an object of its own and none of
\* its lists, for any key, is an array of target or of incoming, also when incoming
\* is absent.
C32_CopyAsStated ==
    mPhase = "merged" =>
        /\ FreshObject(mOut, mTarget, mIncoming)
        /\ \A t \in DOMAIN mHeap.objs[mOut] : FreshList(mOut, t, mTarget, mIncoming)

\* C32: in a call with incoming present the returned mapping is an object of its
\* own, and for every key of incoming its list is an array of neither target nor
\* incoming; the same holds when the result is merged with incoming once more.
C32_CopyOnMerge ==
    /\ (mPhase = "merged" /\ mIncoming # Null) =>
          /\ FreshObject(mOut, mTarget, mIncoming)
          /\ \A t \in DOMAIN mHeap.objs[mIncoming] :
                FreshList(mOut, t, mTarget, mIncoming)
    /\ (mPhase = "remerged" /\ mIncoming # Null) =>
          /\ FreshObject(mOut2, mOut, mIncoming)
          /\ \A t \in DOMAIN mHeap.objs[mIncoming] :
                FreshList(mOut2, t, mOut, mIncoming)

\* incoming is present and brings a link for a key target has a list for, and target
\* has a non-empty list for another key, which incoming lacks
C32_Witness ==
    /\ mPhase = "merged" /\ mIncoming # Null
    /\ \E t \in DOMAIN mSnap.target \cap DOMAIN mSnap.incoming :
          mSnap.target[t] # <<>> /\ Len(OutNow[t]) > Len(mSnap.target[t])
    /\ \E t \in DOMAIN mSnap.target \ DOMAIN mSnap.incoming : mSnap.target[t] # <<>>

-----------------------------------------------------------------------------
(* PluginManager: properties *)

\* C9: getPlugins() returns every registered plugin exactly once, in ascending
\* priority, and plugins of equal priority in their registration order.
C9_Sorted ==
    pOp = "getPlugins" =>
        /\ Len(pSorted) = Len(plugins)
        /\ {pSorted[i].reg : i \in 1..Len(pSorted)} = 1..Len(plugins)
        /\ \A i \in 1..Len(pSorted) : pSorted[i] = plugins[pSorted[i].reg]
        /\ \A i, j \in 1..Len(pSorted) :
              i < j => \/ pSorted[i].priority < pSorted[j].priority
                       \/ /\ pSorted[i].priority = pSorted[j].priority
                          /\ pSorted[i].reg < pSorted[j].reg

\* getPlugins() reordered three plugins, two of them of the same priority
C9_Witness ==
    /\ pOp = "getPlugins"
    /\ Len(pSorted) = 3
    /\ pSorted # plugins
    /\ \E i, j \in 1..3 : /\ i < j
                          /\ pSorted[i].priority = pSorted[j].priority
                          /\ pSorted[i].name # pSorted[j].name

\* C24: registerPlugin with a null or undefined plugin, alone or as an element of
\* the list given to registerPlugins, completes and leaves the registry unchanged:
\* size is the number of non-null plugins registered since construction or the last
\* clear().
C24_NullPlugin ==
    [][/\ Len(plugins') = pHist'.given
       /\ (pOp' \in {"registerPlugin", "registerPlugins"}
             /\ pHist'.given = pHist.given) => plugins' = plugins
       /\ \A i \in 1..Len(plugins') : plugins'[i].name \in PluginNames]_pluginVars

\* registerPlugins took a list of a null and a plugin, on a registry of one plugin
C24_Witness ==
    /\ pOp = "registerPlugins"
    /\ pHist.nulls = 1
    /\ pHist.given = 2
    /\ Len(plugins) = 2

\* the registry positions of the plugins called name
Named(name) == {i \in 1..Len(plugins) : plugins[i].name = name}

\* C25: getPlugin(name) returns the earliest-registered plugin whose name is name,
\* whatever the priorities and whatever getPlugins() calls came before, and
\* undefined when no registered plugin has that name (also after clear()).
C25_GetPlugin ==
    pOp = "getPlugin" =>
        IF Named(pHist.asked) = {}
        THEN pFound = NoPlugin
        ELSE /\ pFound.name = pHist.asked
             /\ pFound.reg \in Named(pHist.asked)
             /\ \A i \in Named(pHist.asked) : pFound.reg <= i
             /\ pFound = plugins[pFound.reg]

\* getPlugin returned the first of two plugins of one name, the second being of
\* higher priority
C25_Witness ==
    /\ pOp = "getPlugin"
    /\ pFound # NoPlugin
    /\ \E j \in Named(pHist.asked) :
          /\ j > pFound.reg
          /\ plugins[j].priority < pFound.priority

\* C33 as stated: whatever was registered, no two registered plugins have the same
\* name, and getPlugins() lists no name twice.
C33_UniqueAsStated ==
    /\ HasDistinctNames(plugins)
    /\ pOp = "getPlugins" => HasDistinctNames(pSorted)

\* C33: the registered plugins have pairwise-distinct names exactly if no name was
\* given twice since construction or the last clear(); then size is the number of
\* names given and getPlugins() lists each of them once.
C33_UniqueKey ==
    /\ HasDistinctNames(plugins) <=> ~pHist.dup
    /\ ~pHist.dup =>
          /\ Len(plugins) = Cardinality(pHist.names)
          /\ pOp = "getPlugins" =>
                /\ HasDistinctNames(pSorted)
                /\ {pSorted[i].name : i \in 1..Len(pSorted)} = pHist.names

\* three plugins of three names were registered, and getPlugins() listed them
C33_Witness ==
    /\ pOp = "getPlugins" /\ ~pHist.dup
    /\ pHist.names = PluginNames
    /\ Len(pSorted) = 3

-----------------------------------------------------------------------------
(* The search handlers: properties *)

\* the request passes the validation rules of the API: a keyword of 1 to 100 legal
\* characters, a concurrency from 1 to 20, a known source
ValidRequest ==
    /\ aReq.kw.legal /\ aReq.kw.len \in 1..100
    /\ aReq.conc \in {Absent} \cup {<<n>> : n \in 1..20}
    /\ aReq.src \in {Absent, <<"all">>, <<"tg">>, <<"plugin">>}

\* no plugin list with src = 'tg', no channel list with src = 'plugin'
SourcesExclusive ==
    aCall.called =>
        /\ aCall.src = "tg" => aCall.plugins = Absent
        /\ aCall.src = "plugin" => aCall.channels = Absent

\* service.search is called only for a request that passed the validation
SearchOnlyValidated == aCall.called => ValidRequest

\* an invalid request is answered with status 400 and code VALIDATION_ERROR, and
\* no search
InvalidRejected ==
    (aHandler # "none" /\ ~ValidRequest) =>
        /\ ~aCall.called
        /\ aResp.status = 400
        /\ aResp.code = "VALIDATION_ERROR"

\* C26: the search handlers never call service.search with a plugin list when
\* src = 'tg', nor with a channel list when src = 'plugin'; service.search is
\* called only after the request passed the schema validation, and an invalid
\* request yields a VALIDATION_ERROR response with status 400 and no search.
C26_Boundary == SourcesExclusive /\ SearchOnlyValidated /\ InvalidRejected

-----------------------------------------------------------------------------
(* SearchService.search: properties *)

OkPlugins == {i \in 1..Len(sSel) : sBehav[i].kind = "ok"}
OkCounts == [i \in 1..Len(sSel) |-> IF i \in OkPlugins THEN sBehav[i].count ELSE 0]

\* C10: whatever plugins throw or reject, the search does not throw; when it
\* returns, every non-failing plugin was invoked and ran to completion, and total
\* is the sum of the result counts of the non-failing plugins.
C10_Isolation ==
    /\ sPhase # "thrown"
    /\ sPhase = "returned" =>
          /\ \A i \in OkPlugins : sState[i] = "done"
          /\ sTotal = SumTo(OkCounts, Len(sSel))

\* a search over three plugins returned a result although two of them threw
C10_Witness ==
    /\ sPhase = "returned"
    /\ Len(sSel) = 3
    /\ Cardinality(OkPlugins) = 1
    /\ sTotal >= 1

\* the timeout of the call: the override of the extension bag if there is one
TimeoutOfCall ==
    IF sReq.ext.timeout = <<>> THEN sOpts.pluginTimeoutMs ELSE sReq.ext.timeout[1]

InTime == {i \in 1..Len(sSel) : sBehav[i].kind = "ok" /\ sBehav[i].dur < TimeoutOfCall}
Overdue == {i \in 1..Len(sSel) : sBehav[i].kind = "ok" /\ sBehav[i].dur > TimeoutOfCall}
InTimeCounts == [i \in 1..Len(sSel) |-> IF i \in InTime THEN sBehav[i].count ELSE 0]

\* C11: a plugin whose search has not completed when the effective timeout
\* elapses contributes no result, also when its result arrives later; the search
\* does not fail and does not wait for it: when it returns, every such plugin has
\* timed out and total counts the results of the plugins that were in time.
C11_Timeout ==
    /\ sPhase # "thrown"
    /\ \A i \in Overdue : sCounts[i] = 0
    /\ sPhase = "returned" =>
          /\ \A i \in Overdue : sState[i] \in {"timedout", "late"}
          /\ sResp.total = SumTo(InTimeCounts, Len(sSel))

\* a search has returned one result while one slow plugin is still running and
\* the result of another one has arrived late
C11_Witness ==
    /\ sPhase = "returned"
    /\ sResp.total = 1
    /\ \E i, j \in Overdue :
          /\ sState[i] = "timedout"
          /\ sState[j] = "late"
          /\ sBehav[j].count = 1

\* the calls that have started and have not completed by success, failure or
\* timeout
StartedNotCompleted == {i \in 1..Len(sSel) : sState[i] = "running"}

\* C12: at every moment of a search at most sConc plugin calls have started and
\* not completed, and when the search returns every selected plugin has been
\* invoked.
C12_Concurrency ==
    /\ Cardinality(StartedNotCompleted) <= sConc
    /\ sPhase = "returned" => \A i \in 1..Len(sSel) : sState[i] # "waiting"

\* a search over more plugins than the bound has returned, all of them invoked
C12_Witness ==
    /\ sPhase = "returned"
    /\ Len(sSel) > sConc
    /\ sConc > 1
    /\ sBatch > 1
    /\ \A i \in 1..Len(sSel) : Settled(i)

\* the raw records behind the response: those collected from the plugins, or
\* those of the cached value
RawRecords ==
    IF sHit
    THEN LET e == CHOOSE e \in sCache : e.key[1] = sReq.kw
         IN SumTo(RawCounts(e.value), Len(e.value))
    ELSE SumTo(sCounts, Len(sSel))

LinksOf(resp) ==
    IF DOMAIN resp.merged_by_type = {} THEN 0
    ELSE (IF "baidu" \in DOMAIN resp.merged_by_type THEN resp.merged_by_type["baidu"] ELSE 0)
         + (IF "aliyun" \in DOMAIN resp.merged_by_type THEN resp.merged_by_type["aliyun"] ELSE 0)

\* C13: the response has results exactly for the shapes results and all,
\* merged_by_type exactly for the shapes merged_by_type and all, and total is the
\* number of raw records.
C13_Shape ==
    sPhase = "returned" =>
        /\ "results" \in sResp.fields <=> sReq.res \in {"results", "all"}
        /\ "merged_by_type" \in sResp.fields <=> sReq.res \in {"merged_by_type", "all"}
        /\ sResp.total = RawRecords

\* a filtered merged_by_type response of one link whose total is two
C13_Witness ==
    /\ sPhase = "returned"
    /\ sReq.res = "merged_by_type"
    /\ sReq.cloudTypes = <<{"aliyun"}>>
    /\ sResp.fields = {"merged_by_type"}
    /\ sResp.total = 2
    /\ LinksOf(sResp) = 1

\* C14: with a cloud-type filter every key of merged_by_type is in the filter, on
\* a miss and on a hit.
C14_Filter ==
    (sPhase = "returned" /\ Len(sReq.cloudTypes) = 1 /\ "merged_by_type" \in sResp.fields)
        => DOMAIN sResp.merged_by_type \subseteq sReq.cloudTypes[1]

\* a response served from a cached value with aliyun links, filtered to baidu
C14_Witness ==
    /\ sPhase = "returned"
    /\ sHit
    /\ sReq.cloudTypes = <<{"baidu"}>>
    /\ "merged_by_type" \in sResp.fields
    /\ DOMAIN sResp.merged_by_type = {"baidu"}
    /\ \E e \in sCache : \E i \in 1..Len(e.value) : "aliyun" \in e.value[i].types

\* the entries populated by a search of the same keyword, source selector and
\* selection as req that are within their TTL
CachedFor(req, sel) ==
    {e \in sCache :
        /\ e.key[1] = req.kw
        /\ e.key[2] = req.src
        /\ e.key[3] = [i \in 1..Len(sel) |-> sel[i].name]
        /\ e.expireAt > sNow}

\* C15: with caching enabled, a call without forceRefresh that finds a value
\* cached within the TTL for its keyword, source selector and selection, whatever
\* its cloud-type filter, invokes no plugin and returns the total of the search
\* that populated the cache; a call with forceRefresh invokes the plugins.
C15_Caching ==
    [][/\ (sPhase = "idle" /\ sPhase' # "idle" /\ sOpts.cacheEnabled
              /\ ~sReq'.forceRefresh /\ CachedFor(sReq', sSel') # {})
          => /\ sPhase' = "returned"
             /\ \A i \in 1..Len(sSel') : sState'[i] = "waiting"
             /\ \E e \in CachedFor(sReq', sSel') : sResp'.total = e.total
       /\ (sPhase = "idle" /\ sPhase' # "idle" /\ sReq'.forceRefresh) => sPhase' = "running"
       /\ (sPhase' = "returned" /\ sReq'.forceRefresh)
          => \A i \in 1..Len(sSel') : sState'[i] # "waiting"]_searchVars

\* a call served, some time later, from the value another cloud-type filter cached
C15_Witness ==
    /\ sPhase = "returned"
    /\ sHit
    /\ sNow > 0
    /\ sResp.total > 0
    /\ \A i \in 1..Len(sSel) : sState[i] = "waiting"
    /\ \E e \in sCache : e.by # sReq.cloudTypes /\ e.by # <<>>

-----------------------------------------------------------------------------
(* The rate limit middleware: properties *)

RECURSIVE AllowedFrom(_, _, _)
\* the requests of ip let through at the times t, t + 1, ..., t + n - 1
AllowedFrom(ip, t, n) ==
    IF n = 0 \/ t > MaxRlTime THEN 0
    ELSE rlAllowed[ip][t] + AllowedFrom(ip, t + 1, n - 1)

\* C16: for each client IP, every time interval of length windowMs has at most
\* maxRequests requests let through, and a request that is not let through is
\* answered with the 429 error.
C16_RateLimit ==
    /\ \A ip \in ClientIPs : \A t \in 0..MaxRlTime :
          AllowedFrom(ip, t, rlConfig.windowMs) <= rlConfig.maxRequests
    /\ ~rlLast.allowed => rlLast.status = TooManyRequests

\* the step is a limited request of ip
IsRequest(ip) == rlLast'.ip = ip /\ ~rlLast'.skipped /\ rlNow' = rlNow

\* ip has no record, or the window of its record is over
WindowOver(ip) == rlStore[ip] = RlNone \/ rlStore[ip].resetTime <= rlNow

\* C40: a request of an IP without a record, or at or after the resetTime of its
\* record, is allowed and leaves a record with count 1 and resetTime = now +
\* windowMs; of the requests the IP makes from then on before resetTime exactly
\* the first maxRequests (the one that created the record included) are allowed; a
\* denied request reports remaining = 0 and leaves the record as it was; an
\* allowed one leaves resetTime as it was; remaining is never negative.
C40_Window ==
    [][\A ip \in ClientIPs :
          IsRequest(ip) =>
              /\ rlLast'.allowed <=> rlSeen'[ip] <= rlConfig.maxRequests
              /\ WindowOver(ip) =>
                    /\ rlLast'.allowed
                    /\ rlStore'[ip] = [count |-> 1,
                                       resetTime |-> rlNow + rlConfig.windowMs]
              /\ ~WindowOver(ip) => rlStore'[ip].resetTime = rlStore[ip].resetTime
              /\ ~rlLast'.allowed =>
                    /\ rlLast'.remaining = 0
                    /\ rlStore'[ip] = rlStore[ip]
              /\ rlLast'.remaining >= 0]_rateVars

\* in a window that began after the clock had moved on, an IP was denied a request
\* after maxRequests of its requests had been allowed
C40_Witness ==
    /\ rlLast.ip \in ClientIPs /\ ~rlLast.skipped /\ ~rlLast.allowed
    /\ rlLast.remaining = 0
    /\ rlSeen[rlLast.ip] = rlConfig.maxRequests + 1
    /\ rlStore[rlLast.ip].count = rlConfig.maxRequests
    /\ rlStore[rlLast.ip].resetTime > rlConfig.windowMs

-----------------------------------------------------------------------------
(* useSearch: properties *)

\* in this step the call r, a continueSearch of the current search, sends
\* the requests of the deep batch b
ContinueSends(r, b) ==
    /\ r \in DOMAIN uRuns'
    /\ uRuns'[r].kind = "continueSearch"
    /\ uRuns'[r].mySeq = searchSeq
    /\ uRuns'[r].at = "deep"
    /\ uRuns'[r].i = b
    /\ (r \in DOMAIN uRuns => uRuns[r].at # "deep" \/ uRuns[r].i # b)

\* C17: continueSearch resumes the deep search where it was paused: no deep
\* batch that had completed before pauseSearch is requested again, so the
\* first batch requested after continueSearch is one that has not completed.
C17_Resume ==
    [][\A r \in 1..MaxRuns : \A b \in 1..MaxEnabled :
          ContinueSends(r, b) => b \notin uHist.beforePause]_useVars

\* the call r takes a step in its code: an await of it returns
Resumes(r) ==
    /\ r \in DOMAIN uRuns
    /\ uRuns[r].at \in {"fast", "deep"}
    /\ uRuns'[r].at # uRuns[r].at \/ uRuns'[r].i # uRuns[r].i

\* the call r belongs to a search that a later performSearch or resetSearch
\* has superseded
Superseded(r) == uRuns[r].mySeq # searchSeq

\* C34: when an await of a superseded call returns, nothing is merged into
\* state.merged and the call requests no further batch; and while no call belongs
\* to the current searchSeq (after resetSearch, before the next performSearch)
\* state.merged is empty.
C34_Superseded ==
    [][/\ \A r \in 1..MaxRuns :
             (Resumes(r) /\ Superseded(r)) =>
                 /\ uState'.merged = uState.merged
                 /\ uRuns'[r].at = "done"
       /\ (\A r \in DOMAIN uRuns' : uRuns'[r].mySeq # searchSeq')
             => uState'.merged = {}]_useVars

\* no call of performSearch or continueSearch is awaiting a batch
NoneInFlight == \A r \in DOMAIN uRuns : uRuns[r].at = "done"

\* C35: when no batch request is in flight and the search is not paused,
\* state.loading and state.deepLoading are both false.
C35_Settle ==
    (NoneInFlight /\ ~uState.paused) => (~uState.loading /\ ~uState.deepLoading)

\* the call r is a performSearch of the current search that is awaiting its fast
\* batch or a deep batch
CurrentSearch(r) ==
    /\ uRuns[r].kind = "performSearch"
    /\ uRuns[r].mySeq = searchSeq
    /\ uRuns[r].at \in {"fast", "deep"}

\* C36: while the performSearch call of the current search is in its fast or deep
\* phase and the search is not paused, state.loading is true.
C36_Loading ==
    \A r \in DOMAIN uRuns : (CurrentSearch(r) /\ ~uState.paused) => uState.loading

\* the batchParams of batch b: 0 is the fast batch, b >= 1 the deep batch b
paramsOf(b) == IF b = 0 THEN fastParams(uSettings) ELSE deepParams(uSettings, b)

Range(list) == {list[i] : i \in 1..Len(list)}

\* the plugins and the channels named by a request of the current search that
\* returned a response without having been aborted
PluginsDone == UNION {Range(paramsOf(b).plugins) : b \in uHist.completed}
ChannelsDone == UNION {Range(paramsOf(b).channels) : b \in uHist.completed}

\* the last call is a continueSearch of the current search and it has finished
ContinuedFinished ==
    /\ uRuns # <<>>
    /\ uRuns[Len(uRuns)].kind = "continueSearch"
    /\ uRuns[Len(uRuns)].mySeq = searchSeq
    /\ NoneInFlight
    /\ ~uState.paused

\* C37: when a search was paused and continued and the continued search has
\* finished, and no request failed or was aborted otherwise than by pauseSearch,
\* every enabled plugin and every enabled TG channel was named by a request that
\* returned a response without having been aborted.
C37_NoSkip ==
    (ContinuedFinished /\ ~uHist.failed) =>
        /\ PluginsDone = 1..uSettings.enabledPlugins
        /\ ChannelsDone = 1..uSettings.enabledTgChannels

\* the sources of a list that the k-th batch of a search names, for batches of
\* conc sources: k = 1 is the fast batch
Chunk(list, k, conc) == SubSeq(list, (k - 1) * conc + 1, Min2(k * conc, Len(list)))

\* the plugins (f = "plugins") or channels (f = "channels") that the requests of
\* sent name, in the order of the requests
RECURSIVE Requested(_, _)
Requested(sent, f) ==
    IF sent = <<>> THEN <<>> ELSE Head(sent)[f] \o Requested(Tail(sent), f)

\* the k-th batch a performSearch call requests names the k-th run of conc
\* plugins and the k-th run of conc channels, and a call that has finished
\* without having been superseded has named every plugin and every channel once
BatchPartition(conc) ==
    \A r \in DOMAIN uRuns :
        uRuns[r].kind = "performSearch" =>
            /\ \A k \in 1..Len(uRuns[r].sent) :
                  /\ uRuns[r].sent[k].plugins =
                        Chunk(namesOf(uSettings.enabledPlugins), k, conc)
                  /\ uRuns[r].sent[k].channels =
                        Chunk(namesOf(uSettings.enabledTgChannels), k, conc)
                  /\ Len(uRuns[r].sent[k].plugins) <= conc
                  /\ Len(uRuns[r].sent[k].channels) <= conc
            /\ (uRuns[r].at = "done" /\ uRuns[r].mySeq = searchSeq) =>
                  /\ Requested(uRuns[r].sent, "plugins") =
                        namesOf(uSettings.enabledPlugins)
                  /\ Requested(uRuns[r].sent, "channels") =
                        namesOf(uSettings.enabledTgChannels)

\* C38 as stated: the batches partition the enabled plugins and channels into
\* runs of conc, with conc the concurrency setting clamped to [1, 16].
C38_PartitionAsStated == BatchPartition(Min2(16, Max2(1, uSettings.concurrency)))

\* C38: the batches partition the enabled plugins and channels into runs of conc,
\* with conc the concurrency setting clamped to [1, 16], and 3 where the setting
\* is 0 or missing.
C38_Partition == BatchPartition(concOf(uSettings))

\* three plugins and two channels at concurrency 2: the search has finished after
\* a fast batch of two plugins and two channels and a deep batch of one plugin
C38_Witness ==
    /\ uSettings = [enabledPlugins |-> 3, enabledTgChannels |-> 2, concurrency |-> 2]
    /\ \E r \in DOMAIN uRuns :
          /\ uRuns[r].kind = "performSearch" /\ uRuns[r].mySeq = searchSeq
          /\ uRuns[r].at = "done"
          /\ uRuns[r].sent = <<[plugins |-> <<1, 2>>, channels |-> <<1, 2>>],
                               [plugins |-> <<3>>, channels |-> <<>>]>>

\* the step sets state.paused: pauseSearch takes effect
PauseTakesEffect == ~uState.paused /\ uState'.paused

\* the search is paused before and after the step, and the step is neither a
\* performSearch nor a resetSearch
StaysPaused == uState.paused /\ uState'.paused /\ searchSeq' = searchSeq

\* pauseSearch takes effect only while a loading flag is set, and then no request
\* is left that was not aborted
PauseAborts ==
    PauseTakesEffect =>
        /\ uState.loading \/ uState.deepLoading
        /\ \A r \in DOMAIN uRuns' :
              uRuns'[r].at \in {"fast", "deep"} => uRuns'[r].aborted

\* while the search stays paused, state.merged loses nothing
PauseKeeps == StaysPaused => uState.merged \subseteq uState'.merged

\* while the search stays paused, no call requests a batch
PauseStops ==
    StaysPaused => \A r \in DOMAIN uRuns : uRuns'[r].sent = uRuns[r].sent

\* C39: pauseSearch takes effect only while state.loading or state.deepLoading is
\* set, and then it aborts every request in flight; as long as the search stays
\* paused, whatever is in state.merged stays there and no batch is requested.
C39_Pause == [][PauseAborts /\ PauseKeeps /\ PauseStops]_useVars

====
